---- MODULE Spec2Model ----
(***************************************************************************)
(* Orchestrator: agent supervisor (claudeAgent / runAgent) and the event   *)
(* dispatch fabric (createDispatch).                                       *)
(*                                                                         *)
(* The JavaScript runtime is modelled as run-to-completion tasks: one      *)
(* action is one macrotask (a timer callback, a stream read completing, a  *)
(* process exit being observed) together with every promise continuation   *)
(* (microtask) it makes runnable.  Time is a discrete clock counted from   *)
(* the Bun.spawn of the agent; a pending timer whose deadline is reached   *)
(* fires before the clock advances.                                        *)
(***************************************************************************)
EXTENDS Integers, Sequences, FiniteSets, TLC

\* ---------------------------------------------------------------- bounds
MaxMs == 3          \* timeoutMs and heartbeatMs range over 1..MaxMs
MaxChunks == 2      \* stdout reads delivering a chunk, per run
MaxExit == 1        \* exit codes range over 0..MaxExit
MaxTime == MaxMs + 2
MaxHandlers == 2    \* length of the handler list
MaxEvents == 2      \* events passed to dispatch
MaxPush == 4        \* events pushed to one queue
MaxCap == 1         \* maxCiRetries and maxReviewRetries range over 1..MaxCap
MaxAttempts == MaxCap + 1
MaxPRs == 2         \* PR numbers range over 1..MaxPRs
MaxFiles == 2      \* numbered .sql files a migrations directory may hold
MaxRuns == 2       \* calls of runMigrations
MaxPages == 2      \* pages of the document store
MaxTicks == 2      \* polling ticks started
MaxComments == 1   \* comments created while the poller runs
MaxPollTime == MaxTicks + 1   \* the clock stops once every tick has fired
MaxSkew == 1       \* seconds around now and around each edge of the window
MaxFields == 2     \* members of a JSON object passed to parseAgentOutput
MaxOps == 5         \* store operations performed
MaxStamp == 1      \* wall-clock readings of a timestamp range over 0..MaxStamp
MaxCalls == 2      \* ConfluenceRestClient methods called

Undefined == -1

Durations == 1..MaxMs
ExitCodes == 0..MaxExit
TriState == {"true", "false", "undefined"}
Flag == {"true", "undefined"}

\* Bytes of a stdout chunk: "A" is an ASCII byte, "L" the lead byte of a
\* two-byte UTF-8 sequence, "T" a continuation byte.
Chunks == {<< >>, <<"L">>, <<"T">>}

VARIABLES
  \* claudeAgent
  pc,               \* "start" | "creating" | "running" | "removing" | "done"
  opts,             \* [worktree, keepWorktree, timeoutMs, heartbeatMs]
  agentFileExists,  \* whether .claude/agents/{agent}.md exists
  worktreePath,     \* "undefined" or the path of the created worktree
  callerResult,     \* what claudeAgent returned / threw
  \* runAgent
  now,              \* time since Bun.spawn
  stdoutChunks,     \* the collected chunks
  drainDone,
  heartbeatTimer,   \* Undefined, or the deadline of the handle it holds
  heartbeatLive,    \* the runtime still has that timer pending
  hardLive,         \* the runtime still has hardTimeoutTimer pending
  drainPc,          \* "idle" | "reading" | "awaitExit" | "returned"
  procState,        \* "none" | "running" | "exited"
  exitCode,
  runResult,        \* what runAgent returned / threw
  \* history
  settleCalls,      \* calls of resolveOutcome / rejectOutcome
  killCalls,        \* calls of proc.kill()
  arrived,          \* every chunk the reader delivered, in order
  lastChunkAt,      \* time of the last non-empty chunk (0: spawn)
  settleSnap,       \* [arrived, lastChunkAt] when the run settled
  spawnCalls,       \* Bun.spawn(["claude", ...])
  createCalls,      \* Bun.spawn(["git","worktree","add", ...])
  removeCalls,      \* Bun.spawn(["git","worktree","remove", ...])
  createExit,       \* exit code of `git worktree add` (Undefined: none yet)
  removeExit,       \* exit code of `git worktree remove`
  warnLog,          \* warnings written by log.warn
  \* createDispatch
  handlers,         \* the handler list, in declaration order
  queues,           \* queue name -> events pushed, in push order
  dispatchLog,      \* every event passed to dispatch, in call order
  unhandledLog,     \* events logged as "Unhandled event"
  handleCalls,      \* calls of any handler's handle()
  \* MemoryQueue
  qName,            \* which queue of createQueues this is
  qPushed,          \* ids of the events passed to push(), in call order
  qWaiting,         \* tasks the queue holds that have not started
  qRunning,         \* tasks whose cb has not been called yet
  qStarted,         \* ids of the events passed to worker(), in call order
  qDone,            \* [id, err] of every settled worker promise, in order
  \* Store
  config,           \* [maxCiRetries, maxReviewRetries]
  design,           \* the design table: id -> row
  pr_state,         \* the pr_state table: pr_number -> row
  storeOps,         \* repository calls made
  design_output,    \* the design_output table: <<design_id, key>> -> path
  outputWrites,     \* <<design_id, key>> -> path of the latest write call
  \* Migrator
  migrationsDir,    \* [entries, readable, failing]: the directory on disk
  _migrations,      \* the _migrations table: names of the recorded files
  schema,           \* <<file, statement>> of every statement in effect
  migPc,            \* "idle" | "loop": position of runMigrations
  files,            \* the sorted .sql files of the current run
  fileIdx,          \* index into files of the next loop iteration
  runResults,       \* "returned" | "thrown" of every finished run
  execLog,          \* [run, file] of every db.exec(sql), in call order
  \* startConfluencePolling
  pollNow,          \* Date.now() of the poller's process
  lastPollTime,     \* the since-cursor passed to getNewComments
  pollTimer,        \* "active" | "cleared": the setInterval timer
  nextFireAt,       \* when the timer fires next
  docStore,         \* page id -> [title, state, comments] in the document store
  ticks,            \* every started poll(), in start order
  pollDispatched,   \* every event passed to dispatch, in call order
  pollErrors,       \* calls of log.error("Confluence polling error")
  \* SlackVerifier
  slackSecret,      \* this.secret
  slackRequest,     \* [timestamp, signature, body]: headers and body of c
  slackNow,         \* Date.now() at the call, in ms
  slackOutcome,     \* "pending" | "resolved" | the message of the Error
  \* parseAgentOutput
  parseRaw,         \* the raw text passed to parseAgentOutput
  parsePc,          \* "input" | "parsed" | "reparsed"
  parseOutput,      \* the returned ParsedAgentOutput
  parseAgain,       \* parseAgentOutput(JSON.stringify(parseOutput))
  \* ConfluenceRestClient
  properties,       \* the page's content properties on the server: key -> value
  setPc,            \* "idle" | "PUT" | "POST" | "resolved" | "rejected"
  setBody,          \* the { key, value } of the setContentState call
  httpLog,          \* the requests of that call and their response status
  commentsCall,     \* the last getNewComments call: since and both responses
  newComments,      \* what that call resolved with
  clientCalls       \* client methods called so far

agentVars == <<pc, opts, agentFileExists, worktreePath, callerResult, now,
               stdoutChunks, drainDone, heartbeatTimer, heartbeatLive,
               hardLive, drainPc, procState, exitCode, runResult,
               settleCalls, killCalls, arrived, lastChunkAt, settleSnap,
               spawnCalls, createCalls, removeCalls, createExit, removeExit,
               warnLog>>

dispatchVars == <<handlers, queues, dispatchLog, unhandledLog, handleCalls>>

queueVars == <<qName, qPushed, qWaiting, qRunning, qStarted, qDone>>

storeVars == <<config, design, pr_state, storeOps, design_output,
              outputWrites>>

migrVars == <<migrationsDir, _migrations, schema, migPc, files, fileIdx,
              runResults, execLog>>

pollVars == <<pollNow, lastPollTime, pollTimer, nextFireAt, docStore, ticks,
              pollDispatched, pollErrors>>

verifyVars == <<slackSecret, slackRequest, slackNow, slackOutcome>>

parseVars == <<parseRaw, parsePc, parseOutput, parseAgain>>

clientVars == <<properties, setPc, setBody, httpLog, commentsCall,
                newComments, clientCalls>>

\* What the verifier's actions leave alone besides the earlier subsystems.
afterVerifyVars == <<parseVars, clientVars>>

\* What the poller's actions leave alone besides coreVars and migrVars.
afterPollVars == <<verifyVars, afterVerifyVars>>

\* What the migrator's actions leave alone besides coreVars.
afterMigrVars == <<pollVars, afterPollVars>>

\* The subsystems modelled after the store.
restVars == <<migrVars, afterMigrVars>>

\* The agent runner, the dispatcher, the queue and the repositories.
coreVars == <<agentVars, dispatchVars, queueVars, storeVars>>

vars == <<coreVars, restVars>>

\* ------------------------------------------------------------ results
NoResult == [kind |-> "none", via |-> "none", success |-> FALSE,
             output |-> << >>, durationMs |-> 0, error |-> ""]

Returned(via, success, output, durationMs) ==
  [kind |-> "returned", via |-> via, success |-> success,
   output |-> output, durationMs |-> durationMs, error |-> ""]

Thrown(via, error) ==
  [kind |-> "thrown", via |-> via, success |-> FALSE,
   output |-> << >>, durationMs |-> 0, error |-> error]

\* ------------------------------------------------------- pure helpers
RECURSIVE Concat(_)
Concat(chunks) ==
  IF chunks = << >> THEN << >> ELSE Head(chunks) \o Concat(Tail(chunks))

\* new TextDecoder().decode(bytes): UTF-8, malformed input becomes U+FFFD.
RECURSIVE Decode(_)
Decode(bytes) ==
  IF bytes = << >> THEN << >>
  ELSE IF Head(bytes) = "A" THEN <<"A">> \o Decode(Tail(bytes))
  ELSE IF Head(bytes) = "L" /\ Len(bytes) >= 2 /\ bytes[2] = "T"
       THEN <<"e-acute">> \o Decode(Tail(Tail(bytes)))
  ELSE <<"U+FFFD">> \o Decode(Tail(bytes))

\* Mutation: every chunk is decoded on its own, then the texts are joined.
RECURSIVE collectOutputPerChunk(_)
collectOutputPerChunk(chunks) ==
  IF chunks = << >> THEN << >>
  ELSE Decode(Head(chunks)) \o collectOutputPerChunk(Tail(chunks))

collectOutput(chunks) == Decode(Concat(chunks))

\* Mutation: the heartbeat deadline is counted from the spawn, not from t.
HeartbeatDeadlineFromSpawn(t) == opts.heartbeatMs

\* setTimeout(..., heartbeatMs) issued at time t
HeartbeatDeadline(t) == t + opts.heartbeatMs

\* Mutation: a chunk pushes the hard deadline back.
HardDeadlinePostponed == lastChunkAt + opts.timeoutMs

\* setTimeout(..., timeoutMs) issued at spawn
HardDeadline == opts.timeoutMs

IsSuccess(code) == code = 0

\* Mutation: the removal is skipped when the run throws.
NeedsRemovalOnReturnOnly(result) ==
  worktreePath # "undefined" /\ opts.keepWorktree # "true"
  /\ result.kind = "returned"

\* finally { if (worktreePath !== undefined && opts?.keepWorktree !== true)
NeedsRemoval(result) ==
  worktreePath # "undefined" /\ opts.keepWorktree # "true"

Settled == runResult.kind # "none"

\* --------------------------------------------------------------- Init
AgentStart ==
  /\ pc = "start"
  /\ worktreePath = "undefined"
  /\ callerResult = NoResult
  /\ now = 0
  /\ stdoutChunks = << >>
  /\ drainDone = FALSE
  /\ heartbeatTimer = Undefined
  /\ heartbeatLive = FALSE
  /\ hardLive = FALSE
  /\ drainPc = "idle"
  /\ procState = "none"
  /\ exitCode = Undefined
  /\ runResult = NoResult
  /\ settleCalls = 0
  /\ killCalls = 0
  /\ arrived = << >>
  /\ lastChunkAt = 0
  /\ settleSnap = [arrived |-> << >>, lastChunkAt |-> 0, at |-> 0]
  /\ spawnCalls = 0
  /\ createCalls = 0
  /\ removeCalls = 0
  /\ createExit = Undefined
  /\ removeExit = Undefined
  /\ warnLog = {}

\* A call claudeAgent(agent, prompt, opts) about to be made.
AgentInit ==
  /\ opts \in [worktree : Flag, keepWorktree : TriState,
               timeoutMs : Durations, heartbeatMs : Durations]
  /\ agentFileExists \in BOOLEAN
  /\ AgentStart

\* No call is made.
AgentIdle ==
  /\ opts = [worktree |-> "undefined", keepWorktree |-> "undefined",
             timeoutMs |-> 1, heartbeatMs |-> 1]
  /\ agentFileExists = TRUE
  /\ AgentStart

\* createDispatch([], {...}) with the four queues of createQueues.
DispatchIdle ==
  /\ handlers = << >>
  /\ queues = [q \in {"architect", "codeWriter", "reviewer", "orchestrator"}
                 |-> << >>]
  /\ dispatchLog = << >>
  /\ unhandledLog = << >>
  /\ handleCalls = 0

\* No queue is in use: createQueues has built its queues, nothing is pushed.
QueueIdle ==
  /\ qName = "orchestrator"
  /\ qPushed = << >>
  /\ qWaiting = << >>
  /\ qRunning = {}
  /\ qStarted = << >>
  /\ qDone = << >>

\* The store after init(): migrated, both tables empty.
StoreIdle ==
  /\ config = [maxCiRetries |-> 1, maxReviewRetries |-> 1]
  /\ design = << >>
  /\ pr_state = << >>
  /\ storeOps = 0
  /\ design_output = << >>
  /\ outputWrites = << >>

\* The database after Store.init(): 001_initial.sql applied and recorded.
MigrIdle ==
  /\ migrationsDir = [entries |-> {1}, readable |-> TRUE, failing |-> {}]
  /\ _migrations = {1}
  /\ schema = {<<1, 1>>, <<1, 2>>}
  /\ migPc = "idle"
  /\ files = << >>
  /\ fileIdx = 1
  /\ runResults = <<"returned">>
  /\ execLog = <<[run |-> 1, file |-> 1]>>

\* No poller has been started: the document store holds no page.
PollIdle ==
  /\ pollNow = 1
  /\ lastPollTime = 0
  /\ pollTimer = "cleared"
  /\ nextFireAt = 1
  /\ docStore = << >>
  /\ ticks = << >>
  /\ pollDispatched = << >>
  /\ pollErrors = 0

\* No request is being verified.
VerifyIdle ==
  /\ slackSecret = ""
  /\ slackRequest = [timestamp |-> << >>, sentAt |-> 0 - 1,
                     signature |-> << >>, body |-> ""]
  /\ slackNow = 0
  /\ slackOutcome = "pending"

\* No agent output is being parsed.
ParseIdle ==
  /\ parseRaw = [form |-> "invalid", lit |-> [t |-> "null", v |-> "null"],
                 members |-> << >>]
  /\ parsePc = "input"
  /\ parseOutput = << >>
  /\ parseAgain = << >>

\* A timestamp text that is not a date.
NotADate == [form |-> "text", wall |-> 0, offset |-> 0]

\* No client method has been called: the page has no property.
ClientIdle ==
  /\ properties = << >>
  /\ setPc = "idle"
  /\ setBody = [key |-> "", value |-> ""]
  /\ httpLog = << >>
  /\ commentsCall = [pc |-> "idle", since |-> NotADate, footer |-> << >>,
                     inline |-> << >>]
  /\ newComments = << >>
  /\ clientCalls = 0

AfterVerifyIdle == ParseIdle /\ ClientIdle

AfterPollIdle == VerifyIdle /\ AfterVerifyIdle

AfterMigrIdle == PollIdle /\ AfterPollIdle

RestIdle == MigrIdle /\ AfterMigrIdle

\* ------------------------------------------------------------ runAgent
\* Mutation: the initial armHeartbeat() of line 152 is missing.
RunAgentStartHeartbeatUnarmed ==
  /\ spawnCalls' = spawnCalls + 1
  /\ procState' = "running"
  /\ hardLive' = TRUE
  /\ heartbeatTimer' = Undefined
  /\ heartbeatLive' = FALSE
  /\ drainPc' = "reading"
  /\ pc' = "running"
  /\ UNCHANGED <<now, stdoutChunks, drainDone, exitCode, runResult,
                 settleCalls, killCalls, arrived, lastChunkAt, settleSnap,
                 removeCalls, removeExit, warnLog, callerResult>>

\* Lines 74-185: spawn, arm both timers, start the drain loop, await the
\* outcome.  Runs synchronously up to the first await.
RunAgentStart ==
  /\ spawnCalls' = spawnCalls + 1
  /\ procState' = "running"
  /\ hardLive' = TRUE
  /\ heartbeatTimer' = HeartbeatDeadline(0)
  /\ heartbeatLive' = TRUE
  /\ drainPc' = "reading"
  /\ pc' = "running"
  /\ UNCHANGED <<now, stdoutChunks, drainDone, exitCode, runResult,
                 settleCalls, killCalls, arrived, lastChunkAt, settleSnap,
                 removeCalls, removeExit, warnLog, callerResult>>

\* The continuation of claudeAgent once runAgent has settled with r: the
\* finally block either starts removeWorktree or lets r through.
Finish(r) ==
  /\ runResult' = r
  /\ settleSnap' = [arrived |-> arrived, lastChunkAt |-> lastChunkAt,
                    at |-> now]
  /\ IF NeedsRemoval(r)
     THEN /\ pc' = "removing"
          /\ removeCalls' = removeCalls + 1
          /\ callerResult' = callerResult
     ELSE /\ pc' = "done"
          /\ removeCalls' = removeCalls
          /\ callerResult' = r

\* resolveOutcome / rejectOutcome: only the first call settles the promise.
SettleOutcome(r) ==
  /\ settleCalls' = settleCalls + 1
  /\ IF Settled
     THEN UNCHANGED <<runResult, settleSnap, pc, removeCalls, callerResult>>
     ELSE Finish(r)

\* What a task leaves alone when it settles nothing.
NothingSettled ==
  UNCHANGED <<drainDone, heartbeatTimer, heartbeatLive, hardLive, runResult,
              settleSnap, settleCalls, pc, removeCalls, callerResult,
              killCalls, warnLog>>

\* claudeAgent is called (lines 20-32).
ClaudeAgentCall ==
  /\ pc = "start"
  /\ IF opts.worktree = "true"
     THEN /\ pc' = "creating"
          /\ createCalls' = createCalls + 1
          /\ UNCHANGED <<worktreePath, callerResult, now, stdoutChunks,
                         drainDone, heartbeatTimer, heartbeatLive, hardLive,
                         drainPc, procState, exitCode, runResult,
                         settleCalls, killCalls, arrived, lastChunkAt,
                         settleSnap, spawnCalls, removeCalls, removeExit,
                         warnLog>>
     ELSE /\ RunAgentStart
          /\ UNCHANGED <<worktreePath, createCalls>>
  /\ UNCHANGED <<opts, agentFileExists, createExit,
                 dispatchVars, queueVars, storeVars, restVars>>

\* Mutation: the exit code of git is not looked at.
CreateFailedIgnored(code) == FALSE

\* createWorktree: a non-zero exit of git throws (part_007 lines 102-107).
CreateFailed(code) == code # 0

\* `git worktree add` exits; createWorktree returns the path or throws.
CreateWorktreeExits(code) ==
  /\ pc = "creating"
  /\ createExit' = code
  /\ IF CreateFailed(code)
     THEN /\ pc' = "done"
          /\ callerResult' = Thrown("createWorktree", "git worktree add failed")
          /\ UNCHANGED <<worktreePath, now, stdoutChunks, drainDone,
                         heartbeatTimer, heartbeatLive, hardLive, drainPc,
                         procState, exitCode, runResult, settleCalls,
                         killCalls, arrived, lastChunkAt, settleSnap,
                         spawnCalls, removeCalls, removeExit, warnLog>>
     ELSE /\ worktreePath' = "worktree"
          /\ RunAgentStart
  /\ UNCHANGED <<opts, agentFileExists, createCalls,
                 dispatchVars, queueVars, storeVars, restVars>>

\* stdoutReader.read() resolves with a chunk (lines 160-165).
ChunkArrives(value) ==
  /\ drainPc = "reading"
  /\ Len(arrived) < MaxChunks
  /\ arrived' = Append(arrived, value)
  /\ IF Len(value) > 0
     THEN /\ stdoutChunks' = Append(stdoutChunks, value)
          /\ heartbeatTimer' = HeartbeatDeadline(now)
          /\ heartbeatLive' = TRUE
          /\ lastChunkAt' = now
     ELSE UNCHANGED <<stdoutChunks, heartbeatTimer, heartbeatLive, lastChunkAt>>
  /\ UNCHANGED <<pc, opts, agentFileExists, worktreePath, callerResult, now,
                 drainDone, hardLive, drainPc, procState, exitCode,
                 runResult, settleCalls, killCalls, settleSnap, spawnCalls,
                 createCalls, removeCalls, createExit, removeExit, warnLog,
                 dispatchVars, queueVars, storeVars, restVars>>

\* Lines 176-181 and 185-205: the drain task has the exit code.
CompleteWith(code) ==
  IF drainDone
  THEN NothingSettled
  ELSE /\ drainDone' = TRUE
       /\ heartbeatTimer' = Undefined
       /\ heartbeatLive' = FALSE
       /\ hardLive' = FALSE
       /\ SettleOutcome(Returned("completed", IsSuccess(code),
                                 collectOutput(stdoutChunks), now))
       /\ UNCHANGED <<killCalls, warnLog>>

\* read() reports done, or the stream errors (lines 161, 167-175).
StdoutEnds ==
  /\ drainPc = "reading"
  /\ IF drainDone
     THEN /\ drainPc' = "returned"
          /\ NothingSettled
     ELSE IF procState = "exited"
     THEN /\ drainPc' = "returned"
          /\ CompleteWith(exitCode)
     ELSE /\ drainPc' = "awaitExit"
          /\ NothingSettled
  /\ UNCHANGED <<opts, agentFileExists, worktreePath, now, stdoutChunks,
                 procState, exitCode, arrived, lastChunkAt, spawnCalls,
                 createCalls, createExit, removeExit,
                 dispatchVars, queueVars, storeVars, restVars>>

\* The process exits; proc.exited resolves (lines 175-181).
ProcExits(code) ==
  /\ procState = "running"
  /\ procState' = "exited"
  /\ exitCode' = code
  /\ IF drainPc = "awaitExit"
     THEN /\ drainPc' = "returned"
          /\ CompleteWith(code)
     ELSE /\ drainPc' = drainPc
          /\ NothingSettled
  /\ UNCHANGED <<opts, agentFileExists, worktreePath, now, stdoutChunks,
                 arrived, lastChunkAt, spawnCalls, createCalls, createExit,
                 removeExit, dispatchVars, queueVars, storeVars, restVars>>

\* Mutation: the callback lacks the `if (drainDone) return` of line 133.
HeartbeatFiresUnguarded ==
  /\ heartbeatLive
  /\ now >= heartbeatTimer
  /\ drainDone' = TRUE
  /\ warnLog' = warnLog \cup {"Agent heartbeat timeout"}
  /\ killCalls' = killCalls + 1
  /\ heartbeatLive' = FALSE
  /\ IF Settled
     THEN UNCHANGED <<heartbeatTimer, hardLive>>
     ELSE heartbeatTimer' = Undefined /\ hardLive' = FALSE
  /\ SettleOutcome(Returned("heartbeat", FALSE,
                            collectOutput(stdoutChunks), now))
  /\ UNCHANGED <<opts, agentFileExists, worktreePath, now, stdoutChunks,
                 drainPc, procState, exitCode, arrived, lastChunkAt,
                 spawnCalls, createCalls, createExit, removeExit,
                 dispatchVars, queueVars, storeVars, restVars>>

\* The heartbeat timer callback (lines 132-138), then lines 185-195.
HeartbeatFires ==
  /\ heartbeatLive
  /\ now >= heartbeatTimer
  /\ IF drainDone
     THEN /\ heartbeatLive' = FALSE
          /\ UNCHANGED <<drainDone, heartbeatTimer, hardLive, killCalls,
                         warnLog, runResult, settleSnap, settleCalls, pc,
                         removeCalls, callerResult>>
     ELSE /\ drainDone' = TRUE
          /\ warnLog' = warnLog \cup {"Agent heartbeat timeout"}
          /\ killCalls' = killCalls + 1
          /\ heartbeatTimer' = Undefined
          /\ heartbeatLive' = FALSE
          /\ hardLive' = FALSE
          /\ SettleOutcome(Returned("heartbeat", FALSE,
                                    collectOutput(stdoutChunks), now))
  /\ UNCHANGED <<opts, agentFileExists, worktreePath, now, stdoutChunks,
                 drainPc, procState, exitCode, arrived, lastChunkAt,
                 spawnCalls, createCalls, createExit, removeExit,
                 dispatchVars, queueVars, storeVars, restVars>>

\* The hard timeout callback (lines 142-149); the rejection propagates
\* through `await outcomePromise`, skipping lines 188-211.
HardTimeoutFires ==
  /\ hardLive
  /\ now >= HardDeadline
  /\ hardLive' = FALSE
  /\ IF drainDone
     THEN UNCHANGED <<drainDone, heartbeatTimer, heartbeatLive, killCalls,
                      warnLog, runResult, settleSnap, settleCalls, pc,
                      removeCalls, callerResult>>
     ELSE /\ drainDone' = TRUE
          /\ heartbeatTimer' = Undefined
          /\ heartbeatLive' = FALSE
          /\ warnLog' = warnLog \cup {"Agent hard timeout"}
          /\ killCalls' = killCalls + 1
          /\ SettleOutcome(Thrown("timeout", "exceeded hard timeout"))
  /\ UNCHANGED <<opts, agentFileExists, worktreePath, now, stdoutChunks,
                 drainPc, procState, exitCode, arrived, lastChunkAt,
                 spawnCalls, createCalls, createExit, removeExit,
                 dispatchVars, queueVars, storeVars, restVars>>

\* Mutation: the error of removeWorktree is not caught, so it replaces the
\* run's completion.
RemoveWorktreeExitsRaising(code) ==
  /\ pc = "removing"
  /\ pc' = "done"
  /\ removeExit' = code
  /\ callerResult' = IF code # 0
                     THEN Thrown("removeWorktree", "git worktree remove failed")
                     ELSE runResult
  /\ warnLog' = warnLog
  /\ UNCHANGED <<opts, agentFileExists, worktreePath, now, stdoutChunks,
                 drainDone, heartbeatTimer, heartbeatLive, hardLive, drainPc,
                 procState, exitCode, runResult, settleCalls, killCalls,
                 arrived, lastChunkAt, settleSnap, spawnCalls, createCalls,
                 removeCalls, createExit, dispatchVars, queueVars, storeVars, restVars>>

\* `git worktree remove` exits.  removeWorktree throws on a non-zero exit
\* (part_007 lines 132-137); claudeAgent catches and logs it (lines 45-50),
\* then the finally block lets the run's own completion through.
RemoveWorktreeExits(code) ==
  /\ pc = "removing"
  /\ pc' = "done"
  /\ removeExit' = code
  /\ callerResult' = runResult
  /\ warnLog' = IF code # 0 THEN warnLog \cup {"Failed to remove worktree"}
                ELSE warnLog
  /\ UNCHANGED <<opts, agentFileExists, worktreePath, now, stdoutChunks,
                 drainDone, heartbeatTimer, heartbeatLive, hardLive, drainPc,
                 procState, exitCode, runResult, settleCalls, killCalls,
                 arrived, lastChunkAt, settleSnap, spawnCalls, createCalls,
                 removeCalls, createExit, dispatchVars, queueVars, storeVars, restVars>>

\* One unit of wall time passes; no pending timer is overdue.
Tick ==
  /\ procState # "none"
  /\ now < MaxTime
  /\ heartbeatLive => now < heartbeatTimer
  /\ hardLive => now < HardDeadline
  /\ now' = now + 1
  /\ UNCHANGED <<pc, opts, agentFileExists, worktreePath, callerResult,
                 stdoutChunks, drainDone, heartbeatTimer, heartbeatLive,
                 hardLive, drainPc, procState, exitCode, runResult,
                 settleCalls, killCalls, arrived, lastChunkAt, settleSnap,
                 spawnCalls, createCalls, removeCalls, createExit,
                 removeExit, warnLog, dispatchVars, queueVars, storeVars, restVars>>

AgentNext ==
  \/ ClaudeAgentCall
  \/ \E code \in ExitCodes : CreateWorktreeExits(code)
  \/ \E value \in Chunks : ChunkArrives(value)
  \/ StdoutEnds
  \/ \E code \in ExitCodes : ProcExits(code)
  \/ HeartbeatFires
  \/ HardTimeoutFires
  \/ \E code \in ExitCodes : RemoveWorktreeExits(code)
  \/ Tick

\* One call of claudeAgent; nothing is dispatched.
AgentSpecInit ==
  AgentInit /\ DispatchIdle /\ QueueIdle /\ StoreIdle /\ RestIdle

AgentSpec == AgentSpecInit /\ [][AgentNext]_vars

\* ===================================================== agent supervisor
Spawned == procState # "none"

\* C1: in every run exactly one of the three outcomes (completed, heartbeat
\* kill, hard timeout) settles it: the outcome promise is settled at most
\* once, it is settled once the hard deadline has passed, and once it is
\* settled no later event changes the run's result or what the caller of
\* claudeAgent observes.
C1_ExactlyOneOutcome ==
  /\ [](settleCalls <= 1)
  /\ [](Settled <=> settleCalls = 1)
  /\ [](Settled => runResult.via \in {"completed", "heartbeat", "timeout"})
  /\ []((Spawned /\ now > opts.timeoutMs) => Settled)
  /\ []((pc = "done" /\ Spawned) => callerResult = runResult)
  /\ [][Settled => runResult' = runResult]_vars
  /\ [][callerResult.kind # "none" => callerResult' = callerResult]_vars

\* A run settled before any output, after which a chunk arrived, re-armed
\* the heartbeat, and that timer has fired too.
C1_Witness ==
  /\ Settled /\ settleCalls = 1
  /\ settleSnap.arrived = << >> /\ stdoutChunks # << >>
  /\ heartbeatTimer # Undefined /\ ~heartbeatLive
  /\ now > settleSnap.at
  /\ procState = "exited"

\* C2: a run unsettled when timeoutMs has elapsed is killed and fails with
\* the hard-timeout error; chunks never postpone the deadline, so no run is
\* unsettled after timeoutMs, none settles later than timeoutMs, and with
\* timeoutMs < heartbeatMs a run that does not complete ends in the timeout
\* error.
C2_HardTimeout ==
  /\ (Spawned /\ ~Settled) => (hardLive /\ now <= opts.timeoutMs)
  /\ Settled => settleSnap.at <= opts.timeoutMs
  /\ runResult.via = "timeout" =>
       /\ runResult = Thrown("timeout", "exceeded hard timeout")
       /\ settleSnap.at = opts.timeoutMs
       /\ killCalls = 1
  /\ (opts.timeoutMs < opts.heartbeatMs /\ Settled
        /\ runResult.via # "completed") => runResult.via = "timeout"

\* A process that kept emitting output still hit the hard timeout.
C2_Witness ==
  /\ runResult.via = "timeout"
  /\ opts.timeoutMs < opts.heartbeatMs
  /\ Len(settleSnap.arrived) = MaxChunks
  /\ settleSnap.lastChunkAt > 0
  /\ pc = "done" /\ callerResult.kind = "thrown"

\* C3: while a run is unsettled the heartbeat timer is pending with deadline
\* (time of the last non-empty chunk, or of the spawn) + heartbeatMs, and
\* time does not pass that deadline; a run settled by the heartbeat was
\* killed and returns success=false with exactly the output received so far.
C3_Heartbeat ==
  /\ (Spawned /\ ~Settled) =>
       /\ heartbeatLive
       /\ heartbeatTimer = lastChunkAt + opts.heartbeatMs
       /\ now <= heartbeatTimer
  /\ runResult.via = "heartbeat" =>
       /\ runResult.kind = "returned"
       /\ runResult.success = FALSE
       /\ runResult.output = Decode(Concat(settleSnap.arrived))
       /\ settleSnap.at = settleSnap.lastChunkAt + opts.heartbeatMs
       /\ killCalls = 1

\* A heartbeat kill after a chunk had restarted the interval.
C3_Witness ==
  /\ runResult.via = "heartbeat"
  /\ settleSnap.lastChunkAt > 0
  /\ runResult.output # << >>
  /\ settleSnap.at > opts.heartbeatMs

\* C4: with heartbeatMs < timeoutMs, a process that writes nothing to
\* stdout and does not exit is never left running past heartbeatMs, and its
\* run settles with the heartbeat outcome (success=false), never with the
\* hard-timeout error.
C4_SilentProcess ==
  (Spawned /\ opts.heartbeatMs < opts.timeoutMs) =>
    /\ (~Settled /\ stdoutChunks = << >>) => now <= opts.heartbeatMs
    /\ (Settled /\ Concat(settleSnap.arrived) = << >>
          /\ runResult.via # "completed") =>
         /\ runResult.via = "heartbeat"
         /\ runResult.kind = "returned"
         /\ runResult.success = FALSE
         /\ settleSnap.at = opts.heartbeatMs

\* A silent, never exiting process killed by the heartbeat before the hard
\* deadline.
C4_Witness ==
  /\ opts.heartbeatMs < opts.timeoutMs
  /\ arrived = << >> /\ procState = "running" /\ drainPc = "reading"
  /\ runResult.via = "heartbeat"
  /\ now > opts.heartbeatMs

\* C5: with worktree=true and keepWorktree not true, removeWorktree is
\* started exactly once for a created worktree: never before the run has
\* settled, and always once it has, whichever outcome settled it; the caller
\* gets its result only after the removal has ended.
C5_WorktreeRemoved ==
  (opts.worktree = "true" /\ opts.keepWorktree # "true") =>
    /\ removeCalls = (IF Settled THEN 1 ELSE 0)
    /\ (callerResult.kind # "none" /\ Spawned) =>
         (removeExit # Undefined /\ Settled)
    /\ removeExit # Undefined => removeCalls = 1

\* The worktree of a run that hit the hard timeout has been removed.
C5_Witness ==
  /\ opts.worktree = "true" /\ opts.keepWorktree = "undefined"
  /\ runResult.via = "timeout"
  /\ removeCalls = 1 /\ removeExit = 0 /\ pc = "done"

\* C6: if `git worktree add` fails, claudeAgent rejects with the creation
\* error, the agent is never spawned and no removal is attempted.
C6_CreateFailureAborts ==
  (createExit # Undefined /\ createExit # 0) =>
    /\ pc = "done"
    /\ callerResult = Thrown("createWorktree", "git worktree add failed")
    /\ spawnCalls = 0 /\ ~Spawned
    /\ removeCalls = 0
    /\ worktreePath = "undefined"

\* A failed creation with removal otherwise due.
C6_Witness ==
  /\ createExit = 1 /\ createCalls = 1
  /\ opts.keepWorktree = "false"
  /\ callerResult.kind = "thrown"

\* C7: a removal failure is logged, not raised: once claudeAgent has ended
\* after a run, the caller has exactly what the run produced, and a failed
\* removal has left the warning in the log.
C7_RemoveFailureLogged ==
  /\ (pc = "done" /\ Spawned) => (Settled /\ callerResult = runResult)
  /\ (removeExit # Undefined /\ removeExit # 0) =>
       "Failed to remove worktree" \in warnLog
  /\ removeExit = 0 => "Failed to remove worktree" \notin warnLog

\* The removal failed after a hard timeout; the caller still gets the
\* timeout error.
C7_Witness ==
  /\ pc = "done" /\ removeExit = 1
  /\ callerResult = Thrown("timeout", "exceeded hard timeout")

\* C8: a run settled by completion returns success = (exit code is zero)
\* and the decoded concatenation of every stdout chunk, in arrival order.
C8_Completed ==
  runResult.via = "completed" =>
    /\ runResult.kind = "returned"
    /\ procState = "exited"
    /\ runResult.success = (exitCode = 0)
    /\ arrived = settleSnap.arrived
    /\ runResult.output = Decode(Concat(arrived))

\* A non-zero exit after a two-byte character that was split over two
\* chunks.
C8_Witness ==
  /\ runResult.via = "completed"
  /\ exitCode = 1 /\ ~runResult.success
  /\ arrived = << <<"L">>, <<"T">> >>
  /\ runResult.output = <<"e-acute">>

\* C9: if the agent spec file does not exist, claudeAgent rejects with
\* "Agent spec not found" and the claude subprocess is never spawned.
C9_MissingSpecRejects ==
  ~agentFileExists =>
    /\ spawnCalls = 0
    /\ pc = "done" => callerResult.error = "Agent spec not found"

\* C33: once the run has settled, neither the heartbeat timer nor the hard
\* timeout timer is pending, whatever stdout delivers afterwards.
C33_NoTimerAfterSettlement ==
  Settled => (~heartbeatLive /\ ~hardLive)

\* C39: a run whose stdout has reached EOF and that waits for the process
\* to exit settles only as completed or by the hard timeout, never by the
\* heartbeat watchdog.
C39_NoHeartbeatAfterEof ==
  [][(drainPc = "awaitExit" /\ ~Settled /\ runResult'.kind # "none")
       => runResult'.via \in {"completed", "timeout"}]_vars

\* ============================================================ dispatch
EventTypes == {"task:requested", "ci:failed", "unknown:event"}
QueueNames == {"architect", "codeWriter", "reviewer", "orchestrator"}

\* A TaskHandler: the queue it names and its matches() predicate, given by
\* the set of event types it accepts.
Handler == [queue : QueueNames, matchTypes : SUBSET EventTypes]

matches(h, event) == event.type \in h.matchTypes

RECURSIVE findFrom(_, _, _)
findFrom(hs, event, i) ==
  IF i > Len(hs) THEN 0
  ELSE IF matches(hs[i], event) THEN i
  ELSE findFrom(hs, event, i + 1)

\* Mutation: the last matching handler is taken.
findLast(hs, event) ==
  LET hits == {i \in 1..Len(hs) : matches(hs[i], event)}
  IN IF hits = {} THEN 0 ELSE CHOOSE i \in hits : \A j \in hits : j <= i

\* handlers.find((h) => h.matches(event)): the index of the first match,
\* 0 for undefined.
find(hs, event) == findFrom(hs, event, 1)

\* createDispatch(handlers, queues) with the queues of createQueues.
DispatchInit ==
  /\ handlers \in UNION {[1..n -> Handler] : n \in 0..MaxHandlers}
  /\ queues = [q \in QueueNames |-> << >>]
  /\ dispatchLog = << >>
  /\ unhandledLog = << >>
  /\ handleCalls = 0

\* Mutation: an event no handler matches falls back to the orchestrator
\* queue.
DispatchWithFallback(type) ==
  /\ Len(dispatchLog) < MaxEvents
  /\ LET event == [id |-> Len(dispatchLog) + 1, type |-> type]
         handler == find(handlers, event)
     IN /\ dispatchLog' = Append(dispatchLog, event)
        /\ unhandledLog' = IF handler = 0 THEN Append(unhandledLog, event)
                           ELSE unhandledLog
        /\ queues' = [queues EXCEPT
                        ![IF handler = 0 THEN "orchestrator"
                          ELSE handlers[handler].queue] = Append(@, event)]
  /\ UNCHANGED <<handlers, handleCalls, agentVars, queueVars, storeVars, restVars>>

\* dispatch(event)
Dispatch(type) ==
  /\ Len(dispatchLog) < MaxEvents
  /\ LET event == [id |-> Len(dispatchLog) + 1, type |-> type]
         handler == find(handlers, event)
     IN /\ dispatchLog' = Append(dispatchLog, event)
        /\ IF handler = 0
           THEN /\ unhandledLog' = Append(unhandledLog, event)
                /\ queues' = queues
           ELSE /\ queues' = [queues EXCEPT ![handlers[handler].queue] =
                                Append(@, event)]
                /\ unhandledLog' = unhandledLog
  /\ UNCHANGED <<handlers, handleCalls, agentVars, queueVars, storeVars, restVars>>

DispatchNext == \E type \in EventTypes : Dispatch(type)

\* One dispatch function; no agent is run.
DispatchSpecInit ==
  DispatchInit /\ AgentIdle /\ QueueIdle /\ StoreIdle /\ RestIdle

DispatchSpec == DispatchSpecInit /\ [][DispatchNext]_vars

Count(event, q) == Cardinality({k \in 1..Len(q) : q[k] = event})

Matching(event) ==
  {i \in 1..Len(handlers) : event.type \in handlers[i].matchTypes}

\* C10: every dispatched event that some handler matches is on the queue
\* named by the first matching handler in declaration order exactly once
\* and on no other queue, and no handle() has been invoked.
C10_FirstMatch ==
  /\ handleCalls = 0
  /\ \A k \in 1..Len(dispatchLog) :
       LET event == dispatchLog[k]
       IN Matching(event) # {} =>
            \E first \in Matching(event) :
              /\ \A j \in Matching(event) : first <= j
              /\ Count(event, queues[handlers[first].queue]) = 1
              /\ \A q \in QueueNames \ {handlers[first].queue} :
                   Count(event, queues[q]) = 0

\* An event matched by two handlers naming different queues, the first of
\* which does not match every event, has been dispatched.
C10_Witness ==
  \E k \in 1..Len(dispatchLog) :
    /\ Cardinality(Matching(dispatchLog[k])) = 2
    /\ handlers[1].queue # handlers[2].queue
    /\ Count(dispatchLog[k], queues[handlers[1].queue]) = 1
    /\ handlers[1].matchTypes # EventTypes
    /\ Len(dispatchLog) = 2

\* C11: every dispatched event that no handler matches has been logged as
\* unhandled exactly once and is on no queue, no event that some handler
\* matches has been logged as unhandled, and every queued or logged event
\* is one that was dispatched (the call returned: it is in neither place
\* twice and nothing else was written).
C11_UnmatchedDropped ==
  /\ \A k \in 1..Len(dispatchLog) :
       LET event == dispatchLog[k]
       IN IF Matching(event) = {}
          THEN /\ Count(event, unhandledLog) = 1
               /\ \A q \in QueueNames : Count(event, queues[q]) = 0
          ELSE Count(event, unhandledLog) = 0
  /\ Len(unhandledLog) =
       Cardinality({k \in 1..Len(dispatchLog) :
                      Matching(dispatchLog[k]) = {}})

\* An event that no handler matches was dispatched to a dispatch function
\* that has handlers, after an event that was queued.
C11_Witness ==
  /\ Len(dispatchLog) = 2
  /\ Len(handlers) > 0
  /\ Matching(dispatchLog[1]) # {}
  /\ Matching(dispatchLog[2]) = {}
  /\ unhandledLog = <<dispatchLog[2]>>
  /\ \E q \in QueueNames : queues[q] = <<dispatchLog[1]>>

\* =============================================================== queues
\* config.queueConcurrency with no QUEUE_CONCURRENCY_* variable set.
queueConcurrency ==
  [architect |-> 2, codeWriter |-> 3, reviewer |-> 2, orchestrator |-> 1]

\* Mutation: createQueues passes the code-writer cap to every queue.
createQueuesConcurrencyShared(name) == queueConcurrency.codeWriter

\* The concurrency createQueues passes to factory.create for each queue.
createQueuesConcurrency(name) == queueConcurrency[name]

\* MemoryQueueFactory.create: `concurrency ?? config.queueConcurrency`, then
\* new MemoryQueue(worker, resolvedConcurrency) with { concurrent }.
concurrent == createQueuesConcurrency(qName)

Events == 1..MaxPush

\* One of the queues createQueues builds, nothing pushed yet.
QueueInit ==
  /\ qName \in QueueNames
  /\ qPushed = << >>
  /\ qWaiting = << >>
  /\ qRunning = {}
  /\ qStarted = << >>
  /\ qDone = << >>

\* push(event): the event, with an id of its own, joins the queue.
QueuePush ==
  /\ Len(qPushed) < MaxPush
  /\ LET event == Len(qPushed) + 1
     IN /\ qPushed' = Append(qPushed, event)
        /\ qWaiting' = Append(qWaiting, event)
  /\ UNCHANGED <<qName, qRunning, qStarted, qDone, agentVars, dispatchVars,
                 storeVars, restVars>>

\* Mutation: the queue takes its newest waiting task.
QueueStartNewestFirst ==
  /\ qWaiting # << >>
  /\ Cardinality(qRunning) < concurrent
  /\ qRunning' = qRunning \cup {qWaiting[Len(qWaiting)]}
  /\ qStarted' = Append(qStarted, qWaiting[Len(qWaiting)])
  /\ qWaiting' = SubSeq(qWaiting, 1, Len(qWaiting) - 1)
  /\ UNCHANGED <<qName, qPushed, qDone, agentVars, dispatchVars,
                 storeVars, restVars>>

\* The queue takes its oldest waiting task while fewer than `concurrent`
\* tasks are running and calls the process function, which calls
\* worker(task).
QueueStart ==
  /\ qWaiting # << >>
  /\ Cardinality(qRunning) < concurrent
  /\ qRunning' = qRunning \cup {Head(qWaiting)}
  /\ qStarted' = Append(qStarted, Head(qWaiting))
  /\ qWaiting' = Tail(qWaiting)
  /\ UNCHANGED <<qName, qPushed, qDone, agentVars, dispatchVars,
                 storeVars, restVars>>

Settling(event) ==
  /\ event \in qRunning
  /\ \A k \in 1..Len(qDone) : qDone[k].id # event

\* worker(task) resolves: .then(() => cb()).
WorkerResolves(event) ==
  /\ Settling(event)
  /\ qDone' = Append(qDone, [id |-> event, err |-> FALSE])
  /\ qRunning' = qRunning \ {event}
  /\ UNCHANGED <<qName, qPushed, qWaiting, qStarted, agentVars,
                 dispatchVars, storeVars, restVars>>

\* Mutation: the .catch is missing, so a rejection never calls cb.
WorkerRejectsUncaught(event) ==
  /\ Settling(event)
  /\ qDone' = Append(qDone, [id |-> event, err |-> TRUE])
  /\ UNCHANGED <<qName, qPushed, qWaiting, qRunning, qStarted, agentVars,
                 dispatchVars, storeVars, restVars>>

\* worker(task) rejects: .catch((err) => cb(err)); the task fails (no
\* retry is configured) and leaves the queue.
WorkerRejects(event) ==
  /\ Settling(event)
  /\ qDone' = Append(qDone, [id |-> event, err |-> TRUE])
  /\ qRunning' = qRunning \ {event}
  /\ UNCHANGED <<qName, qPushed, qWaiting, qStarted, agentVars,
                 dispatchVars, storeVars, restVars>>

WorkerSettles(event) == WorkerResolves(event) \/ WorkerRejects(event)

QueueNext ==
  \/ QueuePush
  \/ QueueStart
  \/ \E event \in Events : WorkerResolves(event)
  \/ \E event \in Events : WorkerRejects(event)

\* One queue in use; no agent is run and nothing is dispatched.
QueueSpecInit ==
  QueueInit /\ AgentIdle /\ DispatchIdle /\ StoreIdle /\ RestIdle

QueueSpec == QueueSpecInit /\ [][QueueNext]_vars

\* The queue starts a task whenever it may, and every worker promise
\* settles.
QueueFairSpec ==
  /\ QueueSpecInit
  /\ [][QueueNext]_vars
  /\ WF_vars(QueueStart)
  /\ \A event \in Events : WF_vars(WorkerSettles(event))

DoneIds == {qDone[k].id : k \in 1..Len(qDone)}

\* C12: the events handed to the worker are, in order and without
\* repetition, a prefix of the events pushed; every pushed event is
\* eventually handed to the worker; and in a queue of concurrency 1 every
\* job but the one started last has finished.
C12_PushOrder ==
  /\ [](/\ Len(qStarted) <= Len(qPushed)
        /\ qStarted = SubSeq(qPushed, 1, Len(qStarted))
        /\ \A i, j \in 1..Len(qStarted) :
             qStarted[i] = qStarted[j] => i = j)
  /\ [](concurrent = 1 =>
          \A k \in 1..(Len(qStarted) - 1) : qStarted[k] \in DoneIds)
  /\ \A event \in Events :
       (Len(qPushed) >= event) ~>
         (Len(qStarted) >= event /\ qStarted[event] = event)

\* In the queue of concurrency 1 the third job runs after the first two
\* finished, while a fourth event waits.
C12_Witness ==
  /\ concurrent = 1
  /\ qPushed = <<1, 2, 3, 4>>
  /\ qStarted = <<1, 2, 3>>
  /\ qRunning = {3}
  /\ qWaiting = <<4>>
  /\ DoneIds = {1, 2}

\* C13: every event pushed to a queue in which an earlier job has been
\* rejected by the worker is eventually handed to the worker.
C13_ErrorDoesNotBlock ==
  \A event \in Events :
    (/\ Len(qPushed) >= event
     /\ \E k \in 1..Len(qDone) : qDone[k].err /\ qDone[k].id < event)
      ~> (\E k \in 1..Len(qStarted) : qStarted[k] = event)

\* In the queue of concurrency 1 the first job was rejected and the second
\* event, pushed before that, has been handed to the worker since.
C13_Witness ==
  /\ concurrent = 1
  /\ qDone = <<[id |-> 1, err |-> TRUE]>>
  /\ qStarted = <<1, 2>>
  /\ qRunning = {2}

DesignIds == {"d1", "d2"}
PRNumbers == 1..MaxPRs
Stages == {"implementation", "in_review", "merged", "failed"}
DesignStatuses == {"running", "approved", "failed"}
CheckStatuses == {"pending", "passing", "failing"}
OutputKeys == {"design_doc", "design_doc_r1"}
OutputPaths == {"design_doc.md", "design_doc.r1.md"}

\* The row with key `key` added to a table.
Insert(table, key, row) ==
  [k \in DOMAIN table \cup {key} |-> IF k = key THEN row ELSE table[k]]

\* A call of a repository method.
RepositoryCall ==
  /\ storeOps < MaxOps
  /\ storeOps' = storeOps + 1
  /\ UNCHANGED <<config, agentVars, dispatchVars, queueVars, restVars>>

\* A call of a method that writes the design or the pr_state table.
Call == RepositoryCall /\ UNCHANGED <<design_output, outputWrites>>

\* new Store(dbPath) and init(), with MAX_CI_RETRIES and MAX_REVIEW_RETRIES
\* read from the environment.
StoreInit ==
  /\ config \in [maxCiRetries : 1..MaxCap, maxReviewRetries : 1..MaxCap]
  /\ design = << >>
  /\ pr_state = << >>
  /\ storeOps = 0
  /\ design_output = << >>
  /\ outputWrites = << >>

\* designs.createDesign({ id })
createDesign(id) ==
  /\ id \notin DOMAIN design
  /\ design' = Insert(design, id,
                      [status |-> "running", review_attempts |-> 0])
  /\ UNCHANGED pr_state
  /\ Call

\* designs.updateDesignStatus(id, status)
updateDesignStatus(id, status) ==
  /\ id \in DOMAIN design
  /\ design' = [design EXCEPT ![id].status = status]
  /\ UNCHANGED pr_state
  /\ Call

\* Mutation: the UPDATE has no WHERE clause.
incrementReviewAttemptsEveryRow(designId) ==
  /\ designId \in DOMAIN design
  /\ \A d \in DOMAIN design : design[d].review_attempts < MaxAttempts
  /\ design' = [d \in DOMAIN design |->
                  [design[d] EXCEPT !.review_attempts = @ + 1]]
  /\ UNCHANGED pr_state
  /\ Call

\* designs.createDesignOutput(designId, outputKey, outputPath): a plain
\* INSERT into a table whose primary key is (design_id, output_key) and
\* whose design_id references a design; a violated constraint throws and
\* writes nothing.
createDesignOutput(designId, outputKey, outputPath) ==
  /\ designId \in DOMAIN design
  /\ outputWrites' = Insert(outputWrites, <<designId, outputKey>>,
                            outputPath)
  /\ design_output' =
       IF <<designId, outputKey>> \notin DOMAIN design_output
       THEN Insert(design_output, <<designId, outputKey>>, outputPath)
       ELSE design_output
  /\ UNCHANGED <<design, pr_state>>
  /\ RepositoryCall

\* designs.getDesignOutputByKey(designId, outputKey); "null" for no row.
getDesignOutputByKey(designId, outputKey) ==
  IF <<designId, outputKey>> \in DOMAIN design_output
  THEN design_output[<<designId, outputKey>>]
  ELSE "null"

\* designs.incrementReviewAttempts(designId)
incrementReviewAttempts(designId) ==
  /\ designId \in DOMAIN design
  /\ design[designId].review_attempts < MaxAttempts
  /\ design' = [design EXCEPT ![designId].review_attempts = @ + 1]
  /\ UNCHANGED pr_state
  /\ Call

\* prStates.createPRState({ prNumber, designId, stage: "implementation" }):
\* pr_number is unique and design_id references an existing design.
createPRState(prNumber, designId) ==
  /\ prNumber \notin DOMAIN pr_state
  /\ designId \in DOMAIN design
  /\ pr_state' = Insert(pr_state, prNumber,
                        [design_id |-> designId, stage |-> "implementation",
                         ci_status |-> "pending",
                         review_status |-> "pending",
                         ci_attempts |-> 0, review_attempts |-> 0])
  /\ UNCHANGED design
  /\ Call

\* prStates.updatePRStage(prNumber, stage)
updatePRStage(prNumber, stage) ==
  /\ prNumber \in DOMAIN pr_state
  /\ pr_state' = [pr_state EXCEPT ![prNumber].stage = stage]
  /\ UNCHANGED design
  /\ Call

\* prStates.updateCIStatus(prNumber, status)
updateCIStatus(prNumber, status) ==
  /\ prNumber \in DOMAIN pr_state
  /\ pr_state' = [pr_state EXCEPT ![prNumber].ci_status = status]
  /\ UNCHANGED design
  /\ Call

\* prStates.updateReviewStatus(prNumber, status)
updateReviewStatus(prNumber, status) ==
  /\ prNumber \in DOMAIN pr_state
  /\ pr_state' = [pr_state EXCEPT ![prNumber].review_status = status]
  /\ UNCHANGED design
  /\ Call

\* prStates.incrementCIAttempts(prNumber)
incrementCIAttempts(prNumber) ==
  /\ prNumber \in DOMAIN pr_state
  /\ pr_state[prNumber].ci_attempts < MaxAttempts
  /\ pr_state' = [pr_state EXCEPT ![prNumber].ci_attempts = @ + 1]
  /\ UNCHANGED design
  /\ Call

\* prStates.incrementPRReviewAttempts(prNumber)
incrementPRReviewAttempts(prNumber) ==
  /\ prNumber \in DOMAIN pr_state
  /\ pr_state[prNumber].review_attempts < MaxAttempts
  /\ pr_state' = [pr_state EXCEPT ![prNumber].review_attempts = @ + 1]
  /\ UNCHANGED design
  /\ Call

\* The rows of SELECT stage FROM pr_state WHERE design_id = ?, among the
\* PRs numbered up to n.
RECURSIVE selectStage(_, _)
selectStage(designId, n) ==
  IF n = 0 THEN << >>
  ELSE LET rows == selectStage(designId, n - 1)
       IN IF n \in DOMAIN pr_state /\ pr_state[n].design_id = designId
          THEN Append(rows, [stage |-> pr_state[n].stage])
          ELSE rows

\* rows.every((r) => r.stage === "merged")
RECURSIVE everyMerged(_)
everyMerged(rows) ==
  IF rows = << >> THEN TRUE
  ELSE Head(rows).stage = "merged" /\ everyMerged(Tail(rows))

\* Mutation: the rows.length === 0 test is missing.
checkAllSiblingsMergedNoLengthTest(designId) ==
  everyMerged(selectStage(designId, MaxPRs))

\* prStates.checkAllSiblingsMerged(designId)
checkAllSiblingsMerged(designId) ==
  LET rows == selectStage(designId, MaxPRs)
  IN IF Len(rows) = 0 THEN FALSE ELSE everyMerged(rows)

\* Mutation: a PR that used up its review attempts is never ready.
checkReadyForHumanWithinRetries(prNumber) ==
  IF prNumber \notin DOMAIN pr_state THEN FALSE
  ELSE /\ pr_state[prNumber].ci_status = "passing"
       /\ pr_state[prNumber].review_status = "passing"
       /\ pr_state[prNumber].review_attempts < config.maxReviewRetries

\* prStates.checkReadyForHuman(prNumber)
checkReadyForHuman(prNumber) ==
  IF prNumber \notin DOMAIN pr_state THEN FALSE
  ELSE /\ pr_state[prNumber].ci_status = "passing"
       /\ pr_state[prNumber].review_status = "passing"

StoreNext ==
  \/ \E id \in DesignIds : createDesign(id)
  \/ \E id \in DesignIds, status \in DesignStatuses :
       updateDesignStatus(id, status)
  \/ \E id \in DesignIds : incrementReviewAttempts(id)
  \/ \E id \in DesignIds, outputKey \in OutputKeys,
        outputPath \in OutputPaths :
       createDesignOutput(id, outputKey, outputPath)
  \/ \E prNumber \in PRNumbers, id \in DesignIds :
       createPRState(prNumber, id)
  \/ \E prNumber \in PRNumbers, stage \in Stages :
       updatePRStage(prNumber, stage)
  \/ \E prNumber \in PRNumbers, status \in CheckStatuses :
       updateCIStatus(prNumber, status)
  \/ \E prNumber \in PRNumbers, status \in CheckStatuses :
       updateReviewStatus(prNumber, status)
  \/ \E prNumber \in PRNumbers : incrementCIAttempts(prNumber)
  \/ \E prNumber \in PRNumbers : incrementPRReviewAttempts(prNumber)

\* One store; no agent is run, nothing is dispatched or queued.
StoreSpecInit ==
  StoreInit /\ AgentIdle /\ DispatchIdle /\ QueueIdle /\ RestIdle

StoreSpec == StoreSpecInit /\ [][StoreNext]_vars

\* C16: no PR has more ci_attempts than config.maxCiRetries.
C16_CiAttemptsCapped ==
  \A prNumber \in DOMAIN pr_state :
    pr_state[prNumber].ci_attempts <= config.maxCiRetries

\* C17: no design has more review_attempts than config.maxReviewRetries.
C17_ReviewAttemptsCapped ==
  \A id \in DOMAIN design :
    design[id].review_attempts <= config.maxReviewRetries

\* The place of a stage in implementation -> in_review -> merged | failed.
StageRank(stage) ==
  CASE stage = "implementation" -> 1
    [] stage = "in_review" -> 2
    [] stage \in {"merged", "failed"} -> 3

\* C18: no store operation moves a PR to an earlier stage, and no store
\* operation changes the stage of a PR that is merged or failed.
C18_StageAdvances ==
  [][\A prNumber \in DOMAIN pr_state :
       /\ StageRank(pr_state'[prNumber].stage) >=
            StageRank(pr_state[prNumber].stage)
       /\ pr_state[prNumber].stage \in {"merged", "failed"} =>
            pr_state'[prNumber].stage = pr_state[prNumber].stage]_vars

\* Every attempt counter of the store, by record and name; a record that
\* does not exist counts as having none (-1).
Counters(designs, prs) ==
  [k \in ({"design"} \X DesignIds \X {"review_attempts"}) \cup
         ({"pr"} \X PRNumbers \X {"ci_attempts", "review_attempts"}) |->
     IF k[1] = "design"
     THEN IF k[2] \in DOMAIN designs
          THEN designs[k[2]].review_attempts ELSE -1
     ELSE IF k[2] \notin DOMAIN prs THEN -1
          ELSE IF k[3] = "ci_attempts" THEN prs[k[2]].ci_attempts
          ELSE prs[k[2]].review_attempts]

PRsOf(designId) ==
  {prNumber \in DOMAIN pr_state : pr_state[prNumber].design_id = designId}

\* C20: checkAllSiblingsMerged(d) is true exactly when design d has a PR
\* and every PR of d has stage merged; in particular it is false for a
\* design without PRs.
C20_AllSiblingsMerged ==
  \A id \in DesignIds :
    checkAllSiblingsMerged(id) <=>
      /\ PRsOf(id) # {}
      /\ \A prNumber \in PRsOf(id) : pr_state[prNumber].stage = "merged"

\* One design has two PRs, both merged, and the other design has none.
C20_Witness ==
  /\ PRsOf("d1") = {1, 2}
  /\ PRsOf("d2") = {}
  /\ pr_state[1].stage = "merged"
  /\ pr_state[2].stage = "merged"
  /\ checkAllSiblingsMerged("d1")
  /\ ~checkAllSiblingsMerged("d2")

C22_OutputReplaced ==
  \A k \in DOMAIN outputWrites :
    getDesignOutputByKey(k[1], k[2]) = outputWrites[k]

\* ------------------------------------------------------------ Migrator
\* A directory entry is a number: n >= 1 is the file "00n_*.sql", 0 is an
\* entry whose name does not end in ".sql".
Entries == 0..MaxFiles

\* The statements of one migration file, in file order.
Statements == {1, 2}

\* CoreIdle: the four earlier subsystems are not in use.
CoreIdle == AgentIdle /\ DispatchIdle /\ QueueIdle /\ StoreIdle

\* new Database(path) on a fresh file and any migrations directory: a set of
\* entries, some of whose .sql files hold a statement that fails.
MigrInit ==
  /\ \E entries \in SUBSET Entries, readable \in BOOLEAN :
       \E failing \in SUBSET (entries \ {0}) :
         migrationsDir = [entries |-> entries, readable |-> readable,
                          failing |-> failing]
  /\ _migrations = {}
  /\ schema = {}
  /\ migPc = "idle"
  /\ files = << >>
  /\ fileIdx = 1
  /\ runResults = << >>
  /\ execLog = << >>

\* entries.filter((f) => f.endsWith(".sql")).sort()
RECURSIVE sorted(_)
sorted(set) ==
  IF set = {} THEN << >>
  ELSE LET least == CHOOSE f \in set : \A g \in set : f <= g
       IN <<least>> \o sorted(set \ {least})

sqlFiles(entries) == sorted({f \in entries : f > 0})

\* Lines 13-26: create _migrations if missing, read the directory; an
\* unreadable directory makes the run return at once.
runMigrations ==
  /\ migPc = "idle"
  /\ Len(runResults) < MaxRuns
  /\ IF migrationsDir.readable
     THEN /\ files' = sqlFiles(migrationsDir.entries)
          /\ fileIdx' = 1
          /\ migPc' = "loop"
          /\ UNCHANGED runResults
     ELSE /\ runResults' = Append(runResults, "returned")
          /\ UNCHANGED <<files, fileIdx, migPc>>
  /\ UNCHANGED <<migrationsDir, _migrations, schema, execLog, coreVars, afterMigrVars>>

\* Mutation: the SELECT of lines 29-31 finds no row.
alreadyAppliedNever(file) == FALSE

\* Lines 29-31: SELECT name FROM _migrations WHERE name = ?
alreadyApplied(file) == file \in _migrations

\* db.exec(sql): the statements take effect in file order, up to and
\* including the one before the failing statement (the last of the file).
execSql(db, file) ==
  IF file \in migrationsDir.failing
  THEN db \cup {<<file, 1>>}
  ELSE db \cup {<<file, st>> : st \in Statements}

\* Mutation: the catch block rethrows without ROLLBACK, and the statements
\* that ran stay in effect.
migrateFileNoRollback ==
  /\ migPc = "loop"
  /\ fileIdx <= Len(files)
  /\ LET file == files[fileIdx] IN
       IF alreadyApplied(file)
       THEN /\ fileIdx' = fileIdx + 1
            /\ UNCHANGED <<_migrations, schema, migPc, runResults, execLog>>
       ELSE /\ execLog' = Append(execLog, [run |-> Len(runResults) + 1,
                                          file |-> file])
            /\ IF file \in migrationsDir.failing
               THEN /\ schema' = execSql(schema, file)
                    /\ runResults' = Append(runResults, "thrown")
                    /\ migPc' = "idle"
                    /\ UNCHANGED <<_migrations, fileIdx>>
               ELSE /\ schema' = execSql(schema, file)
                    /\ _migrations' = _migrations \cup {file}
                    /\ fileIdx' = fileIdx + 1
                    /\ UNCHANGED <<migPc, runResults>>
  /\ UNCHANGED <<migrationsDir, files, coreVars, afterMigrVars>>

\* Lines 28-50, one iteration of the loop: skip a recorded file; otherwise
\* BEGIN, exec the file, INSERT its row, COMMIT; on an error ROLLBACK and
\* rethrow, which ends the run.
migrateFile ==
  /\ migPc = "loop"
  /\ fileIdx <= Len(files)
  /\ LET file == files[fileIdx] IN
       IF alreadyApplied(file)
       THEN /\ fileIdx' = fileIdx + 1
            /\ UNCHANGED <<_migrations, schema, migPc, runResults, execLog>>
       ELSE /\ execLog' = Append(execLog, [run |-> Len(runResults) + 1,
                                          file |-> file])
            /\ IF file \in migrationsDir.failing
               THEN \* ROLLBACK: the database is as it was at BEGIN
                    /\ runResults' = Append(runResults, "thrown")
                    /\ migPc' = "idle"
                    /\ UNCHANGED <<_migrations, schema, fileIdx>>
               ELSE /\ schema' = execSql(schema, file)
                    /\ _migrations' = _migrations \cup {file}
                    /\ fileIdx' = fileIdx + 1
                    /\ UNCHANGED <<migPc, runResults>>
  /\ UNCHANGED <<migrationsDir, files, coreVars, afterMigrVars>>

\* Line 51: the loop is over, the promise resolves.
runMigrationsReturns ==
  /\ migPc = "loop"
  /\ fileIdx > Len(files)
  /\ runResults' = Append(runResults, "returned")
  /\ migPc' = "idle"
  /\ UNCHANGED <<migrationsDir, _migrations, schema, files, fileIdx, execLog,
                 coreVars, afterMigrVars>>

MigrNext ==
  \/ runMigrations
  \/ migrateFile
  \/ runMigrationsReturns

MigrSpecInit == MigrInit /\ CoreIdle /\ AfterMigrIdle

MigrSpec == MigrSpecInit /\ [][MigrNext]_vars

\* C23: once a run of runMigrations has returned, no later step of any run
\* executes a migration file, adds a row to _migrations or changes the
\* database, and a later run returns as well.
C23_SecondRunNoOp ==
  [][(\E i \in DOMAIN runResults : runResults[i] = "returned")
       => /\ execLog' = execLog
          /\ _migrations' = _migrations
          /\ schema' = schema
          /\ \A i \in DOMAIN runResults' : runResults'[i] = "returned"]_vars

\* A second run has returned over a directory of two good files.
C23_Witness ==
  /\ runResults = <<"returned", "returned">>
  /\ migrationsDir.readable
  /\ Cardinality(_migrations) = 2

\* C24: the rows of _migrations and the statements in effect always belong
\* to the same files, whole files only; a failing file ends its run with
\* the error thrown and is the last file that run executed.
C24_FileAtomic ==
  /\ schema = {<<f, st>> : f \in _migrations, st \in Statements}
  /\ \A i \in DOMAIN execLog :
       execLog[i].file \in migrationsDir.failing =>
         /\ execLog[i].run <= Len(runResults)
         /\ runResults[execLog[i].run] = "thrown"
         /\ \A j \in DOMAIN execLog :
              j > i => execLog[j].run # execLog[i].run

\* A run threw on the second of two files: the first file is recorded whole,
\* the failing one left nothing.
C24_Witness ==
  /\ runResults = <<"thrown">>
  /\ migrationsDir.failing = {2}
  /\ _migrations = {1}
  /\ Len(execLog) = 2

\* ------------------------------------------------- startConfluencePolling
PageIds == 1..MaxPages

\* new Date(0), the first since-cursor (line 225).
PollEpoch == 0

\* intervalMs, in clock units (line 224).
pollInterval == 1

\* Page titles: a bracketed id, no id, empty brackets.
Titles == { <<"[", "d", "1", "]", " ", "F">>,
            <<"N", "o", " ", "i", "d">>,
            <<"[", "]", " ", "F">> }

HexChars == {"0", "1", "2", "3", "4", "5", "6", "7", "8", "9",
             "a", "b", "c", "d", "e", "f", "A", "B", "C", "D", "E", "F"}

\* extractDesignId's null: no design id is the empty string.
NoDesignId == << >>

\* String.prototype.trim over the characters of a title.
RECURSIVE trim(_)
trim(title) ==
  IF title = << >> THEN << >>
  ELSE IF Head(title) = " " THEN trim(Tail(title))
  ELSE IF title[Len(title)] = " " THEN trim(SubSeq(title, 1, Len(title) - 1))
  ELSE title

\* Lines 277-289: the first "[...]" group with at least one character, else
\* the trimmed title when it is 32 to 36 hexadecimal digits or dashes, else
\* null.
extractDesignId(pageTitle) ==
  LET opens == {i \in 1..Len(pageTitle) :
                  /\ pageTitle[i] = "["
                  /\ \E j \in (i + 2)..Len(pageTitle) :
                       /\ pageTitle[j] = "]"
                       /\ \A k \in (i + 1)..(j - 1) : pageTitle[k] # "]"}
      trimmed == trim(pageTitle)
  IN IF opens # {}
     THEN LET i == CHOOSE o \in opens : \A o2 \in opens : o <= o2
              j == CHOOSE c \in (i + 2)..Len(pageTitle) :
                     /\ pageTitle[c] = "]"
                     /\ \A k \in (i + 1)..(c - 1) : pageTitle[k] # "]"
          IN SubSeq(pageTitle, i + 1, j - 1)
     ELSE IF /\ Len(trimmed) >= 32
             /\ Len(trimmed) <= 36
             /\ \A k \in 1..Len(trimmed) : trimmed[k] \in HexChars \cup {"-"}
          THEN trimmed
          ELSE NoDesignId

\* startConfluencePolling(confluence, dispatch, intervalMs) over a document
\* store whose pages are all in review and have no comment yet.
PollInit ==
  /\ pollNow = 1
  /\ lastPollTime = PollEpoch
  /\ pollTimer = "active"
  /\ nextFireAt = 1 + pollInterval
  /\ docStore \in [PageIds -> [title : Titles, state : {"In Review"},
                               comments : {{}}]]
  /\ ticks = << >>
  /\ pollDispatched = << >>
  /\ pollErrors = 0

\* Index of the first page at or after idx whose title yields a design id
\* (lines 233-235), Len(pages) + 1 when there is none.
nextPage(pages, idx) ==
  LET rest == {k \in idx..Len(pages) :
                 extractDesignId(docStore[pages[k]].title) # NoDesignId}
  IN IF rest = {} THEN Len(pages) + 1
     ELSE CHOOSE k \in rest : \A k2 \in rest : k <= k2

NewTick ==
  [pc |-> "getPagesInReview", pollStart |-> pollNow, pages |-> << >>,
   idx |-> 1, gotState |-> {}, gotComments |-> {}, outcome |-> "running",
   afterStop |-> pollTimer = "cleared", read |-> {}]

\* Mutation: the interval callback runs although the timer was cleared.
TimerFiresAfterClear ==
  /\ pollNow >= nextFireAt
  /\ Len(ticks) < MaxTicks
  /\ ticks' = Append(ticks, NewTick)
  /\ nextFireAt' = nextFireAt + pollInterval
  /\ UNCHANGED <<pollNow, lastPollTime, pollTimer, docStore, pollDispatched,
                 pollErrors, coreVars, migrVars,
                 afterPollVars>>

\* Lines 266-268 and 228: the interval elapses, poll() starts and records
\* pollStart.
TimerFires ==
  /\ pollTimer = "active"
  /\ pollNow >= nextFireAt
  /\ Len(ticks) < MaxTicks
  /\ ticks' = Append(ticks, NewTick)
  /\ nextFireAt' = nextFireAt + pollInterval
  /\ UNCHANGED <<pollNow, lastPollTime, pollTimer, docStore, pollDispatched,
                 pollErrors, coreVars, migrVars,
                 afterPollVars>>

\* The clock advances; an armed timer fires before its time has passed.
PollTimePasses ==
  /\ pollNow < MaxPollTime
  /\ (pollTimer = "active" /\ Len(ticks) < MaxTicks) => pollNow < nextFireAt
  /\ pollNow' = pollNow + 1
  /\ UNCHANGED <<lastPollTime, pollTimer, nextFireAt, docStore, ticks,
                 pollDispatched, pollErrors, coreVars, migrVars,
                 afterPollVars>>

\* stop(): clearInterval(timer) (lines 271-273).
stop ==
  /\ pollTimer = "active"
  /\ pollTimer' = "cleared"
  /\ UNCHANGED <<pollNow, lastPollTime, nextFireAt, docStore, ticks,
                 pollDispatched, pollErrors, coreVars, migrVars,
                 afterPollVars>>

\* Someone comments on a page of the document store.
CommentCreated(pageId) ==
  LET made == UNION {docStore[p].comments : p \in PageIds} IN
  /\ Cardinality(made) < MaxComments
  /\ docStore' = [docStore EXCEPT ![pageId].comments =
                    @ \cup {[id |-> Cardinality(made) + 1,
                             createdAt |-> pollNow]}]
  /\ UNCHANGED <<pollNow, lastPollTime, pollTimer, nextFireAt, ticks,
                 pollDispatched, pollErrors, coreVars, migrVars,
                 afterPollVars>>

\* A reviewer moves a page from "In Review" to "approved".
PageApproved(pageId) ==
  /\ docStore[pageId].state = "In Review"
  /\ docStore' = [docStore EXCEPT ![pageId].state = "approved"]
  /\ UNCHANGED <<pollNow, lastPollTime, pollTimer, nextFireAt, ticks,
                 pollDispatched, pollErrors, coreVars, migrVars,
                 afterPollVars>>

\* Line 263 after the loop or the catch block: the tick is over.
tickEnds(tick, outcome) ==
  [tick EXCEPT !.pc = "done", !.outcome = outcome]

\* ConfluenceRestClient.getPagesInReview resolves: the pages whose content
\* state was read as "In Review" (a failed read gives null and drops the
\* page); poll() skips to the first page with a design id.  `read` keeps
\* the pages whose state the listing did read.
getPagesInReviewReturns(t) ==
  /\ ticks[t].pc = "getPagesInReview"
  /\ \E unread \in SUBSET PageIds :
       LET pages == sorted({p \in PageIds \ unread :
                              docStore[p].state = "In Review"})
           idx == nextPage(pages, 1)
       IN IF idx > Len(pages)
          THEN /\ ticks' = [ticks EXCEPT ![t] =
                              tickEnds([@ EXCEPT !.pages = pages,
                                                 !.idx = idx,
                                                 !.read = PageIds \ unread],
                                       "completed")]
               /\ lastPollTime' = ticks[t].pollStart
          ELSE /\ ticks' = [ticks EXCEPT ![t] =
                              [@ EXCEPT !.pages = pages, !.idx = idx,
                                        !.read = PageIds \ unread,
                                        !.pc = "getContentState"]]
               /\ UNCHANGED lastPollTime
  /\ UNCHANGED <<pollNow, pollTimer, nextFireAt, docStore, pollDispatched,
                 pollErrors, coreVars, migrVars,
                 afterPollVars>>

\* Mutation: poll() has no catch block; the rejection of the un-awaited
\* poll() ends the process and with it the timer.
clientCallThrowsUncaught(t) ==
  /\ ticks[t].pc \in {"getPagesInReview", "getNewComments"}
  /\ ticks' = [ticks EXCEPT ![t] = tickEnds(@, "rejected")]
  /\ pollTimer' = "cleared"
  /\ UNCHANGED <<pollNow, lastPollTime, nextFireAt, docStore, pollDispatched,
                 pollErrors, coreVars, migrVars,
                 afterPollVars>>

\* getPagesInReview or getNewComments rejects: the catch block of lines
\* 257-261 logs the error, line 263 moves the cursor, poll() resolves.
clientCallThrows(t) ==
  /\ ticks[t].pc \in {"getPagesInReview", "getNewComments"}
  /\ pollErrors' = pollErrors + 1
  /\ lastPollTime' = ticks[t].pollStart
  /\ ticks' = [ticks EXCEPT ![t] = tickEnds(@, "failed")]
  /\ UNCHANGED <<pollNow, pollTimer, nextFireAt, docStore, pollDispatched,
                 coreVars, migrVars,
                 afterPollVars>>

\* parseConfluenceApproval(pageRef) as dispatched by tick t.
approvalEvent(t, pageId) ==
  [type |-> "page:approved", pageId |-> pageId,
   designId |-> extractDesignId(docStore[pageId].title), comment |-> 0,
   tick |-> t]

\* parseConfluenceComment(pageRef, comment) as dispatched by tick t.
commentEvent(t, pageId, comment) ==
  [type |-> "page:comment", pageId |-> pageId,
   designId |-> extractDesignId(docStore[pageId].title),
   comment |-> comment.id, tick |-> t]

\* Mutation: line 241 tests `if (state)`.
getContentStateReturnsAnyState(t) ==
  /\ ticks[t].pc = "getContentState"
  /\ LET pageId == ticks[t].pages[ticks[t].idx] IN
     \E state \in {docStore[pageId].state, "null"} :
       /\ ticks' = [ticks EXCEPT ![t] =
                      [@ EXCEPT !.gotState = @ \cup {<<pageId, state>>},
                                !.pc = "getNewComments"]]
       /\ pollDispatched' =
            IF state # "null"
            THEN Append(pollDispatched, approvalEvent(t, pageId))
            ELSE pollDispatched
  /\ UNCHANGED <<pollNow, lastPollTime, pollTimer, nextFireAt, docStore,
                 pollErrors, coreVars, migrVars,
                 afterPollVars>>

\* Lines 239-244: getContentState resolves with the stored state, or with
\* null when its request failed; "approved" dispatches page:approved.
getContentStateReturns(t) ==
  /\ ticks[t].pc = "getContentState"
  /\ LET pageId == ticks[t].pages[ticks[t].idx] IN
     \E state \in {docStore[pageId].state, "null"} :
       /\ ticks' = [ticks EXCEPT ![t] =
                      [@ EXCEPT !.gotState = @ \cup {<<pageId, state>>},
                                !.pc = "getNewComments"]]
       /\ pollDispatched' =
            IF state = "approved"
            THEN Append(pollDispatched, approvalEvent(t, pageId))
            ELSE pollDispatched
  /\ UNCHANGED <<pollNow, lastPollTime, pollTimer, nextFireAt, docStore,
                 pollErrors, coreVars, migrVars,
                 afterPollVars>>

\* The comments of a set, oldest id first.
RECURSIVE inIdOrder(_)
inIdOrder(comments) ==
  IF comments = {} THEN << >>
  ELSE LET first == CHOOSE c \in comments : \A d \in comments : c.id <= d.id
       IN <<first>> \o inIdOrder(comments \ {first})

\* Lines 246-256 and 263: getNewComments resolves with the comments created
\* after lastPollTime; one page:comment is dispatched per comment; then the
\* loop goes on to the next page with a design id, or the tick ends.
getNewCommentsReturns(t) ==
  /\ ticks[t].pc = "getNewComments"
  /\ LET pageId == ticks[t].pages[ticks[t].idx]
         comments == inIdOrder({c \in docStore[pageId].comments :
                                  c.createdAt > lastPollTime})
         idx == nextPage(ticks[t].pages, ticks[t].idx + 1)
         got == [ticks[t] EXCEPT
                   !.gotComments = @ \cup {<<pageId, comments[i].id>> :
                                             i \in DOMAIN comments},
                   !.idx = idx]
     IN /\ pollDispatched' = pollDispatched \o
             [i \in DOMAIN comments |-> commentEvent(t, pageId, comments[i])]
        /\ IF idx > Len(ticks[t].pages)
           THEN /\ ticks' = [ticks EXCEPT ![t] = tickEnds(got, "completed")]
                /\ lastPollTime' = ticks[t].pollStart
           ELSE /\ ticks' = [ticks EXCEPT ![t] =
                               [got EXCEPT !.pc = "getContentState"]]
                /\ UNCHANGED lastPollTime
  /\ UNCHANGED <<pollNow, pollTimer, nextFireAt, docStore, pollErrors,
                 coreVars, migrVars,
                 afterPollVars>>

PollNext ==
  \/ TimerFires
  \/ PollTimePasses
  \/ stop
  \/ \E pageId \in PageIds : CommentCreated(pageId)
  \/ \E pageId \in PageIds : PageApproved(pageId)
  \/ \E t \in DOMAIN ticks : getPagesInReviewReturns(t)
  \/ \E t \in DOMAIN ticks : clientCallThrows(t)
  \/ \E t \in DOMAIN ticks : getContentStateReturns(t)
  \/ \E t \in DOMAIN ticks : getNewCommentsReturns(t)

PollSpecInit == PollInit /\ CoreIdle /\ MigrIdle /\ AfterPollIdle

PollSpec == PollSpecInit /\ [][PollNext]_vars

\* C25: a tick that ends on a failed client call resolves with the error
\* logged once, and leaves the timer armed and its next firing time as they
\* were.
C25_ErrorAbsorbed ==
  [][\A t \in DOMAIN ticks :
       (/\ ticks[t].pc \in {"getPagesInReview", "getNewComments"}
        /\ ticks'[t].pc = "done"
        /\ ticks'[t].outcome # "completed")
       => /\ ticks'[t].outcome = "failed"
          /\ pollErrors' = pollErrors + 1
          /\ pollTimer' = pollTimer
          /\ nextFireAt' = nextFireAt]_vars

\* A tick failed, and the tick one interval later ran to completion.
C25_Witness ==
  \E t \in DOMAIN ticks, u \in DOMAIN ticks :
    /\ ticks[t].outcome = "failed"
    /\ ticks[u].pollStart = ticks[t].pollStart + pollInterval
    /\ ticks[u].outcome = "completed"
    /\ pollTimer = "active"

\* C26: once the timer is cleared no tick is started, and no tick that
\* exists began with the timer cleared.
C26_StopEndsTicks ==
  [][/\ pollTimer = "cleared" =>
          /\ Len(ticks') = Len(ticks)
          /\ pollTimer' = "cleared"
     /\ \A t \in DOMAIN ticks' : ~ticks'[t].afterStop]_vars

\* stop() was called after the first tick, with ticks left to start, and
\* the time of the next firing has come.
C26_Witness ==
  /\ pollTimer = "cleared"
  /\ Len(ticks) = 1
  /\ Len(ticks) < MaxTicks
  /\ pollNow >= nextFireAt

\* Indexes of the events tick t dispatched for a page.
EventsOfTick(t, pageId, type) ==
  {i \in DOMAIN pollDispatched :
     /\ pollDispatched[i].tick = t
     /\ pollDispatched[i].pageId = pageId
     /\ pollDispatched[i].type = type}

\* C27: in every tick, a page has one page:approved event if the tick read
\* its state as "approved" and none otherwise, and one page:comment event
\* for each comment the tick was given as new and none otherwise; every
\* event carries the design id of its page's title, so a page without one
\* has no event; a completed tick has read the state of every returned page
\* that has a design id.
C27_TickEvents ==
  /\ \A t \in DOMAIN ticks, pageId \in PageIds :
       /\ Cardinality(EventsOfTick(t, pageId, "page:approved")) =
            IF <<pageId, "approved">> \in ticks[t].gotState THEN 1 ELSE 0
       /\ \A c \in 1..MaxComments :
            Cardinality({i \in EventsOfTick(t, pageId, "page:comment") :
                           pollDispatched[i].comment = c}) =
              IF <<pageId, c>> \in ticks[t].gotComments THEN 1 ELSE 0
       /\ Cardinality(EventsOfTick(t, pageId, "page:comment")) =
            Cardinality({g \in ticks[t].gotComments : g[1] = pageId})
  /\ \A i \in DOMAIN pollDispatched :
       /\ pollDispatched[i].type \in {"page:approved", "page:comment"}
       /\ pollDispatched[i].designId # NoDesignId
       /\ pollDispatched[i].designId =
            extractDesignId(docStore[pollDispatched[i].pageId].title)
  /\ \A t \in DOMAIN ticks :
       ticks[t].outcome = "completed" =>
         \A k \in DOMAIN ticks[t].pages :
           extractDesignId(docStore[ticks[t].pages[k]].title) # NoDesignId
             => \E g \in ticks[t].gotState : g[1] = ticks[t].pages[k]

\* A completed tick was given a page without a design id and a page that it
\* read as approved and that had a new comment.
C27_Witness ==
  \E t \in DOMAIN ticks, pageId \in PageIds :
    /\ ticks[t].outcome = "completed"
    /\ Len(ticks[t].pages) = 2
    /\ \E k \in DOMAIN ticks[t].pages :
         extractDesignId(docStore[ticks[t].pages[k]].title) = NoDesignId
    /\ EventsOfTick(t, pageId, "page:approved") # {}
    /\ EventsOfTick(t, pageId, "page:comment") # {}

\* A tick ends in this step.
TickEndsNow(t) == ticks[t].pc # "done" /\ ticks'[t].pc = "done"

\* C34: the since-cursor is the start timestamp of the last tick that ran
\* to completion, the epoch before any has: a tick that completes sets it
\* to its own start, a tick that ends on an error leaves it alone, and
\* nothing else changes it.
C34_CursorSetOnCompletion ==
  [][/\ \A t \in DOMAIN ticks :
          TickEndsNow(t) =>
            IF ticks'[t].outcome = "completed"
            THEN lastPollTime' = ticks[t].pollStart
            ELSE lastPollTime' = lastPollTime
     /\ (\A t \in DOMAIN ticks : ~TickEndsNow(t))
          => lastPollTime' = lastPollTime]_vars

\* C35: no comment is dispatched as page:comment more than once.
C35_CommentOnce ==
  \A i \in DOMAIN pollDispatched, j \in DOMAIN pollDispatched :
    (/\ pollDispatched[i].type = "page:comment"
     /\ pollDispatched[j].type = "page:comment"
     /\ pollDispatched[i].comment = pollDispatched[j].comment)
    => i = j

\* C36: once a tick that started after a comment was created has completed
\* and listed the comment's page, a page in review with a design id, the
\* comment has been dispatched as page:comment.
C36_CommentDispatched ==
  \A pageId \in DOMAIN docStore :
    \A c \in docStore[pageId].comments :
      (/\ docStore[pageId].state = "In Review"
       /\ extractDesignId(docStore[pageId].title) # NoDesignId
       /\ \E t \in DOMAIN ticks :
            /\ ticks[t].outcome = "completed"
            /\ ticks[t].pollStart > c.createdAt
            /\ \E k \in DOMAIN ticks[t].pages : ticks[t].pages[k] = pageId)
      => \E i \in DOMAIN pollDispatched :
           /\ pollDispatched[i].type = "page:comment"
           /\ pollDispatched[i].comment = c.id

\* C37: lastPollTime never moves backwards.
C37_CursorMonotonic ==
  [][lastPollTime' >= lastPollTime]_vars

\* C38: once a tick whose listing read the state of an approved page with a
\* design id has completed, page:approved has been dispatched for the page.
C38_ApprovalDispatched ==
  \A pageId \in DOMAIN docStore :
    (/\ docStore[pageId].state = "approved"
     /\ extractDesignId(docStore[pageId].title) # NoDesignId
     /\ \E t \in DOMAIN ticks :
          /\ ticks[t].outcome = "completed"
          /\ pageId \in ticks[t].read
          /\ \A k \in DOMAIN ticks[t].pages : ticks[t].pages[k] # pageId)
    => \E i \in DOMAIN pollDispatched :
         /\ pollDispatched[i].type = "page:approved"
         /\ pollDispatched[i].pageId = pageId

\* C40: page:approved is dispatched at most once for a page.
C40_ApprovedOnce ==
  \A i \in DOMAIN pollDispatched, j \in DOMAIN pollDispatched :
    (/\ pollDispatched[i].type = "page:approved"
     /\ pollDispatched[j].type = "page:approved"
     /\ pollDispatched[i].pageId = pollDispatched[j].pageId)
    => i = j

\* ------------------------------------------------------------ SlackVerifier
\* Line 5: 5 minutes, in ms.
REPLAY_WINDOW_MS == 5 * 60 * 1000

DigitChars == <<"0", "1", "2", "3", "4", "5", "6", "7", "8", "9">>

\* String(n) for n >= 0, as the test's nowTimestamp() builds the header.
RECURSIVE toDigits(_)
toDigits(n) ==
  IF n < 10 THEN <<DigitChars[n + 1]>>
  ELSE toDigits(n \div 10) \o <<DigitChars[(n % 10) + 1]>>

IsDigit(c) == \E d \in 1..10 : DigitChars[d] = c

digitValue(c) == (CHOOSE d \in 1..10 : DigitChars[d] = c) - 1

\* The value of the longest prefix of digits, given the value so far.
RECURSIVE digitsValue(_, _)
digitsValue(str, acc) ==
  IF str = << >> \/ ~IsDigit(Head(str)) THEN acc
  ELSE digitsValue(Tail(str), acc * 10 + digitValue(Head(str)))

RECURSIVE skipSpaces(_)
skipSpaces(str) ==
  IF str # << >> /\ Head(str) = " " THEN skipSpaces(Tail(str)) ELSE str

\* parseInt(str, 10): leading white space and a sign are skipped, the
\* longest prefix of digits is the value, NaN when there is no digit.
parseInt(str) ==
  LET unspaced == skipSpaces(str)
      signed == unspaced # << >> /\ Head(unspaced) \in {"+", "-"}
      digits == IF signed THEN Tail(unspaced) ELSE unspaced
  IN IF digits = << >> \/ ~IsDigit(Head(digits))
     THEN [nan |-> TRUE, value |-> 0]
     ELSE [nan |-> FALSE,
           value |-> IF signed /\ Head(unspaced) = "-"
                     THEN 0 - digitsValue(digits, 0)
                     ELSE digitsValue(digits, 0)]

Abs(x) == IF x < 0 THEN 0 - x ELSE x

\* Mutation: line 29 tests >= REPLAY_WINDOW_MS.
replayedAtEdge(nowMs, timestamp) ==
  LET requestTime == parseInt(timestamp) IN
  /\ ~requestTime.nan
  /\ Abs(nowMs - requestTime.value * 1000) >= REPLAY_WINDOW_MS

\* Lines 26-29: Math.abs(now - parseInt(timestamp, 10) * 1000) >
\* REPLAY_WINDOW_MS; every comparison with NaN is false.
replayed(nowMs, timestamp) ==
  LET requestTime == parseInt(timestamp) IN
  /\ ~requestTime.nan
  /\ Abs(nowMs - requestTime.value * 1000) > REPLAY_WINDOW_MS

\* Lines 37-53: "v0=" and the hex HMAC-SHA256 of `v0:${timestamp}:${body}`
\* under the secret; the HMAC is taken to have no collisions, so the
\* signature stands for its key and its base string.
slackSignature(secret, timestamp, body) == <<"v0=", secret, timestamp, body>>

\* Lines 61-75: equal lengths and no differing byte.
timingSafeEqual(a, b) == a = b

MissingTimestamp == "Missing X-Slack-Request-Timestamp header"
MissingSignature == "Missing X-Slack-Signature header"
\* Line 30 (the message has a long dash where this one has "-").
ReplayError == "Slack request timestamp too old - replay attack protection"
SecretMissing == "Slack signing secret not configured"
InvalidSignature == "Invalid Slack webhook signature"

\* Lines 14-58: "resolved", or the message of the Error thrown.
verifyResult(secret, request, nowMs) ==
  IF request.timestamp = << >> THEN MissingTimestamp
  ELSE IF request.signature = << >> THEN MissingSignature
  ELSE IF replayed(nowMs, request.timestamp) THEN ReplayError
  ELSE IF secret = "" THEN SecretMissing
  ELSE IF ~timingSafeEqual(slackSignature(secret, request.timestamp,
                                          request.body),
                           request.signature)
       THEN InvalidSignature
       ELSE "resolved"

\* The window in seconds, and the second in which verify is called.
WindowSec == REPLAY_WINDOW_MS \div 1000
NowSec == WindowSec + MaxSkew

\* Seconds a sender may have stamped: around now and around both edges.
SentAt ==
  {NowSec + base + k : base \in {0 - WindowSec, 0, WindowSec},
                       k \in (0 - MaxSkew)..MaxSkew}

\* The milliseconds part of Date.now().
MsParts == {0, 1, 999}

Secrets == {"test-slack-signing-secret", ""}
SignerSecrets == {"test-slack-signing-secret", "other-secret"}
Bodies == {"payload=test", "payload=tampered"}

\* A timestamp header: a stamped second, a second followed by a letter, or
\* no number; << >> is the missing (or empty) header. sentAt is the stamped
\* second, -1 when the header is not one.
TimestampHeaders ==
  {[text |-> toDigits(sec), sentAt |-> sec] : sec \in SentAt}
    \cup {[text |-> toDigits(NowSec) \o <<"x">>, sentAt |-> 0 - 1],
          [text |-> <<"a", "b">>, sentAt |-> 0 - 1],
          [text |-> << >>, sentAt |-> 0 - 1]}

\* new SlackVerifier(secret) and a request c about to be verified.
VerifyInit ==
  /\ slackSecret \in Secrets
  /\ \E header \in TimestampHeaders, body \in Bodies :
       \E signature \in {<< >>, <<"v0=", "0000", << >>, "">>}
                          \cup {slackSignature(sec, header.text, signed) :
                                  sec \in SignerSecrets, signed \in Bodies} :
         slackRequest = [timestamp |-> header.text, sentAt |-> header.sentAt,
                         signature |-> signature, body |-> body]
  /\ slackNow \in {NowSec * 1000 + ms : ms \in MsParts}
  /\ slackOutcome = "pending"

\* await verifier.verify(c)
verify ==
  /\ slackOutcome = "pending"
  /\ slackOutcome' = verifyResult(slackSecret, slackRequest, slackNow)
  /\ UNCHANGED <<slackSecret, slackRequest, slackNow, coreVars, migrVars,
                 pollVars, afterVerifyVars>>

VerifyNext == verify

VerifySpecInit ==
  VerifyInit /\ CoreIdle /\ MigrIdle /\ PollIdle /\ AfterVerifyIdle

VerifySpec == VerifySpecInit /\ [][VerifyNext]_vars

\* The request carries the signature of its own timestamp and body under the
\* verifier's secret.
ValidlySigned ==
  /\ slackSecret # ""
  /\ slackRequest.signature =
       <<"v0=", slackSecret, slackRequest.timestamp, slackRequest.body>>

\* C29: a request with both headers and a stamped second is rejected as a
\* replay exactly when now and the stamp are more than 300 s apart, whatever
\* its signature; validly signed, it is accepted at 0 s and at exactly 300 s
\* and rejected as a replay at 301 s.
C29_ReplayWindow ==
  (/\ slackOutcome # "pending"
   /\ slackRequest.sentAt >= 0
   /\ slackRequest.signature # << >>)
  => LET age == Abs(slackNow - slackRequest.sentAt * 1000) IN
     /\ slackOutcome = ReplayError <=> age > 300 * 1000
     /\ (ValidlySigned /\ age = 0) => slackOutcome = "resolved"
     /\ (ValidlySigned /\ age = 300 * 1000) => slackOutcome = "resolved"
     /\ age = 301 * 1000 => slackOutcome = ReplayError

\* A validly signed request exactly 300 s old was accepted.
C29_Witness ==
  /\ slackOutcome = "resolved"
  /\ slackRequest.sentAt >= 0
  /\ slackNow - slackRequest.sentAt * 1000 = 300 * 1000

\* --------------------------------------------------------- parseAgentOutput
\* Lines 329-349: the recognised fields and the typeof each one must have.
FieldType ==
  [result |-> "string", cost_usd |-> "number", duration_ms |-> "number",
   duration_api_ms |-> "number", num_turns |-> "number",
   is_error |-> "boolean", session_id |-> "string"]

RecognisedKeys == DOMAIN FieldType

\* The keys of an input object: the recognised ones and an unknown one.
ObjectKeys == RecognisedKeys \cup {"extra"}

NullLiteral == [t |-> "null", v |-> "null"]

\* JSON literals a member may have: "Done", 0, 1e999, false, null.
Literals ==
  {[t |-> "string", v |-> "Done"], [t |-> "number", v |-> "0"],
   [t |-> "number", v |-> "1e999"], [t |-> "boolean", v |-> "false"],
   NullLiteral}

\* A raw text by its JSON syntax: not JSON at all (the empty text included),
\* a literal, an array, or an object of at most MaxFields members.
RawTexts ==
  {[form |-> form, lit |-> NullLiteral, members |-> << >>] :
     form \in {"invalid", "array"}}
    \cup {[form |-> "literal", lit |-> lit, members |-> << >>] :
            lit \in Literals}
    \cup UNION {{[form |-> "object", lit |-> NullLiteral, members |-> m] :
                   m \in [keys -> Literals]} :
                keys \in {ks \in SUBSET ObjectKeys :
                            Cardinality(ks) <= MaxFields}}

\* The value JSON.parse gives a literal: 1e999 is beyond the doubles and
\* becomes Infinity.
jsValue(lit) ==
  IF lit.t = "number" /\ lit.v = "1e999"
  THEN [t |-> "number", v |-> "Infinity"]
  ELSE lit

\* JSON.parse(raw) for a raw text that is JSON.
JSONparse(raw) ==
  CASE raw.form = "literal" ->
         [t |-> raw.lit.t, v |-> jsValue(raw.lit).v, members |-> << >>]
    [] raw.form = "array" ->
         [t |-> "array", v |-> "", members |-> << >>]
    [] raw.form = "object" ->
         [t |-> "object", v |-> "",
          members |-> [k \in DOMAIN raw.members |-> jsValue(raw.members[k])]]

\* The literal JSON.stringify writes for a value: null for a number that
\* is not finite.
jsonLiteral(val) ==
  IF val.t = "number" /\ val.v \in {"Infinity", "-Infinity", "NaN"}
  THEN NullLiteral
  ELSE val

\* JSON.stringify(output) for a ParsedAgentOutput.
JSONstringify(output) ==
  [form |-> "object", lit |-> NullLiteral,
   members |-> [k \in DOMAIN output |-> jsonLiteral(output[k])]]

\* typeof
typeOf(val) == IF val.t \in {"null", "array", "object"} THEN "object" ELSE val.t

\* The raw text as a string value.
RawText == [t |-> "string", v |-> "raw"]

\* Mutation: line 321 has no Array.isArray test.
parseAgentOutputNoArrayTest(raw) ==
  IF raw.form = "invalid" THEN [result |-> RawText]
  ELSE LET parsed == JSONparse(raw) IN
       IF parsed.t = "null" \/ typeOf(parsed) # "object"
       THEN [result |-> RawText]
       ELSE [k \in {f \in RecognisedKeys \cap DOMAIN parsed.members :
                      typeOf(parsed.members[f]) = FieldType[f]}
               |-> parsed.members[k]]

\* Lines 317-355: { result: raw } when JSON.parse throws or gives null, a
\* primitive or an array; otherwise the recognised members whose typeof is
\* the expected one.
parseAgentOutput(raw) ==
  IF raw.form = "invalid" THEN [result |-> RawText]
  ELSE LET parsed == JSONparse(raw) IN
       IF parsed.t = "null" \/ typeOf(parsed) # "object" \/ parsed.t = "array"
       THEN [result |-> RawText]
       ELSE [k \in {f \in RecognisedKeys \cap DOMAIN parsed.members :
                      typeOf(parsed.members[f]) = FieldType[f]}
               |-> parsed.members[k]]

ParseInit ==
  /\ parseRaw \in RawTexts
  /\ parsePc = "input"
  /\ parseOutput = << >>
  /\ parseAgain = << >>

\* const output = parseAgentOutput(raw)
parseCall ==
  /\ parsePc = "input"
  /\ parseOutput' = parseAgentOutput(parseRaw)
  /\ parsePc' = "parsed"
  /\ UNCHANGED <<parseRaw, parseAgain, coreVars, migrVars, pollVars,
                 verifyVars, clientVars>>

\* parseAgentOutput(JSON.stringify(output))
reparseCall ==
  /\ parsePc = "parsed"
  /\ parseAgain' = parseAgentOutput(JSONstringify(parseOutput))
  /\ parsePc' = "reparsed"
  /\ UNCHANGED <<parseRaw, parseOutput, coreVars, migrVars, pollVars,
                 verifyVars, clientVars>>

ParseNext == parseCall \/ reparseCall

ParseSpecInit ==
  ParseInit /\ CoreIdle /\ MigrIdle /\ PollIdle /\ VerifyIdle /\ ClientIdle

ParseSpec == ParseSpecInit /\ [][ParseNext]_vars

\* What the claim expects for a raw text: for JSON of an object the
\* recognised members whose JSON type is the field's type, with the values
\* the text gives them; { result: raw } for every other text.
ExpectedOutput ==
  IF parseRaw.form = "object"
  THEN [k \in {f \in DOMAIN parseRaw.members :
                 /\ f \in {"result", "session_id"}
                      => parseRaw.members[f].t = "string"
                 /\ f \in {"cost_usd", "duration_ms", "duration_api_ms",
                           "num_turns"}
                      => parseRaw.members[f].t = "number"
                 /\ f = "is_error" => parseRaw.members[f].t = "boolean"
                 /\ f # "extra"}
          |-> jsValue(parseRaw.members[k])]
  ELSE [result |-> RawText]

\* C30 (as stated): parseAgentOutput returns the expected output for every
\* raw text, and parsing the JSON.stringify of any output gives that output
\* back.
C30_ParseRoundTrip ==
  /\ parsePc # "input" => parseOutput = ExpectedOutput
  /\ parsePc = "reparsed" => parseAgain = parseOutput

FiniteNumbers(output) ==
  \A k \in DOMAIN output :
    output[k].t = "number" => output[k].v \notin {"Infinity", "-Infinity", "NaN"}

\* C30 (amended): parseAgentOutput returns the expected output for every
\* raw text, and parsing the JSON.stringify of an output gives that output
\* back when every number in it is finite.
C30_ParseRoundTripFinite ==
  /\ parsePc # "input" => parseOutput = ExpectedOutput
  /\ (parsePc = "reparsed" /\ FiniteNumbers(parseOutput))
       => parseAgain = parseOutput

\* An object with a well-typed and a wrong-typed recognised member was
\* parsed to the well-typed one alone, a finite number, and parsed back.
C30_Witness ==
  /\ parsePc = "reparsed"
  /\ parseRaw.form = "object"
  /\ DOMAIN parseRaw.members = {"num_turns", "is_error"}
  /\ DOMAIN parseOutput = {"num_turns"}
  /\ parseOutput["num_turns"].v = "0"
  /\ parseAgain = parseOutput

\* ------------------------------------------------- ConfluenceRestClient
PropertyKeys == {"content-state"}

PropertyValues == {"In Review", "approved"}

\* ISO-8601 texts: a wall-clock reading with a UTC offset, and a text that
\* is not a date.
IsoStamps ==
  [form : {"date"}, wall : 0..MaxStamp, offset : {0, 1}] \cup {NotADate}

\* new Date(text): the instant the text denotes, or an Invalid Date, whose
\* time value is NaN.
newDate(text) ==
  IF text = NotADate THEN [nan |-> TRUE, time |-> 0]
  ELSE [nan |-> FALSE, time |-> text.wall - text.offset]

\* Mutation: the filter of line 438 keeps createdAt >= since.
isAfterOrEqual(createdAt, sinceDate) ==
  /\ ~newDate(createdAt).nan
  /\ ~sinceDate.nan
  /\ newDate(createdAt).time >= sinceDate.time

\* Line 438: new Date(comment.version.createdAt) > sinceDate, a comparison
\* of time values that is false when either is NaN.
isAfter(createdAt, sinceDate) ==
  /\ ~newDate(createdAt).nan
  /\ ~sinceDate.nan
  /\ newDate(createdAt).time > sinceDate.time

\* What the two comment endpoints can answer with: at most one comment
\* each, the footer comment with an author's display name, the inline
\* comment without createdBy.
FooterResults ==
  {<< >>} \cup {<<[id |-> "f1", createdAt |-> at, createdBy |-> "Ann Lee"]>> :
                  at \in IsoStamps}

InlineResults ==
  {<< >>} \cup {<<[id |-> "i1", createdAt |-> at, createdBy |-> "undefined"]>> :
                  at \in IsoStamps}

\* Array.prototype.filter with the test of line 438.
RECURSIVE filterAfter(_, _)
filterAfter(allComments, sinceDate) ==
  IF allComments = << >> THEN << >>
  ELSE (IF isAfter(Head(allComments).createdAt, sinceDate)
        THEN <<Head(allComments)>> ELSE << >>)
       \o filterAfter(Tail(allComments), sinceDate)

\* Lines 434-445: footer comments then inline comments, filtered and
\* mapped to { id, author, createdAt }.
newCommentsOf(footerData, inlineData, since) ==
  LET kept == filterAfter(footerData \o inlineData, newDate(since))
  IN [i \in DOMAIN kept |->
        [id |-> kept[i].id,
         author |-> IF kept[i].createdBy = "undefined" THEN "unknown"
                    ELSE kept[i].createdBy,
         createdAt |-> kept[i].createdAt]]

\* new ConfluenceRestClient(...) against a page with any content
\* properties.
ClientInit ==
  /\ \E keys \in SUBSET PropertyKeys : properties \in [keys -> PropertyValues]
  /\ setPc = "idle"
  /\ setBody = [key |-> "", value |-> ""]
  /\ httpLog = << >>
  /\ commentsCall = [pc |-> "idle", since |-> NotADate, footer |-> << >>,
                     inline |-> << >>]
  /\ newComments = << >>
  /\ clientCalls = 0

\* Lines 386-394: setContentState(pageId, key, value) builds the body and
\* sends the PUT.
setContentState(key, value) ==
  /\ setPc \in {"idle", "resolved", "rejected"}
  /\ clientCalls < MaxCalls
  /\ clientCalls' = clientCalls + 1
  /\ setBody' = [key |-> key, value |-> value]
  /\ httpLog' = << >>
  /\ setPc' = "PUT"
  /\ UNCHANGED <<properties, commentsCall, newComments, coreVars, migrVars,
                 pollVars, verifyVars, parseVars>>

\* The server answers the PUT: 200 for a property that exists, 404 for one
\* that does not, 500 at any time.  request() throws on every status that
\* is not ok (lines 297-300), and the catch of line 395 sends the POST
\* whatever was thrown.
putResponds(status) ==
  /\ setPc = "PUT"
  /\ status \in (IF setBody.key \in DOMAIN properties THEN {200} ELSE {404})
                  \cup {500}
  /\ httpLog' = Append(httpLog, [method |-> "PUT", status |-> status])
  /\ IF status = 200
     THEN /\ properties' = [properties EXCEPT ![setBody.key] = setBody.value]
          /\ setPc' = "resolved"
     ELSE /\ setPc' = "POST"
          /\ UNCHANGED properties
  /\ UNCHANGED <<setBody, commentsCall, newComments, clientCalls, coreVars,
                 migrVars, pollVars, verifyVars, parseVars>>

\* The server answers the POST: 200 and the property is created, 400 for a
\* property that exists already, 500 at any time.  A failed POST rejects
\* setContentState (line 397).
postResponds(status) ==
  /\ setPc = "POST"
  /\ status \in (IF setBody.key \in DOMAIN properties THEN {400} ELSE {200})
                  \cup {500}
  /\ httpLog' = Append(httpLog, [method |-> "POST", status |-> status])
  /\ IF status = 200
     THEN /\ properties' =
               [k \in DOMAIN properties \cup {setBody.key} |->
                  IF k = setBody.key THEN setBody.value ELSE properties[k]]
          /\ setPc' = "resolved"
     ELSE /\ setPc' = "rejected"
          /\ UNCHANGED properties
  /\ UNCHANGED <<setBody, commentsCall, newComments, clientCalls, coreVars,
                 migrVars, pollVars, verifyVars, parseVars>>

\* Lines 423-445: getNewComments(pageId, since) with both requests
\* answered.
getNewComments(since) ==
  /\ clientCalls < MaxCalls
  /\ clientCalls' = clientCalls + 1
  /\ \E footerData \in FooterResults, inlineData \in InlineResults :
       /\ commentsCall' = [pc |-> "resolved", since |-> since,
                           footer |-> footerData, inline |-> inlineData]
       /\ newComments' = newCommentsOf(footerData, inlineData, since)
  /\ UNCHANGED <<properties, setPc, setBody, httpLog, coreVars, migrVars,
                 pollVars, verifyVars, parseVars>>

\* Lines 424-433: one of the two requests fails and Promise.all rejects.
getNewCommentsRejects(since) ==
  /\ clientCalls < MaxCalls
  /\ clientCalls' = clientCalls + 1
  /\ commentsCall' = [pc |-> "rejected", since |-> since, footer |-> << >>,
                      inline |-> << >>]
  /\ newComments' = << >>
  /\ UNCHANGED <<properties, setPc, setBody, httpLog, coreVars, migrVars,
                 pollVars, verifyVars, parseVars>>

ClientNext ==
  \/ \E key \in PropertyKeys, value \in PropertyValues :
       setContentState(key, value)
  \/ \E status \in {200, 404, 500} : putResponds(status)
  \/ \E status \in {200, 400, 500} : postResponds(status)
  \/ \E since \in IsoStamps : getNewComments(since)
  \/ \E since \in IsoStamps : getNewCommentsRejects(since)

ClientSpecInit ==
  ClientInit /\ CoreIdle /\ MigrIdle /\ PollIdle /\ VerifyIdle /\ ParseIdle

ClientSpec == ClientSpecInit /\ [][ClientNext]_vars

\* The instant an ISO-8601 text denotes, in clock units since the epoch.
InstantOf(text) == text.wall - text.offset

\* C31: a resolved getNewComments(pageId, since) returns the comments of
\* the page, footer comments before inline comments, whose created-at is an
\* instant strictly later than since, and no other; a comment created at
\* the instant of since is not returned.
C31_StrictlyAfterSince ==
  commentsCall.pc = "resolved" =>
    LET all == commentsCall.footer \o commentsCall.inline
        later == {i \in DOMAIN all :
                    /\ all[i].createdAt # NotADate
                    /\ commentsCall.since # NotADate
                    /\ InstantOf(all[i].createdAt)
                         > InstantOf(commentsCall.since)}
    IN /\ Len(newComments) = Cardinality(later)
       /\ \A i \in later :
            \E k \in DOMAIN newComments :
              /\ newComments[k].id = all[i].id
              /\ newComments[k].createdAt = all[i].createdAt
       /\ \A k \in DOMAIN newComments, m \in DOMAIN newComments :
            (k < m /\ newComments[m].id = "f1") => newComments[k].id = "f1"
       /\ \A i \in DOMAIN all :
            (/\ all[i].createdAt # NotADate
             /\ commentsCall.since # NotADate
             /\ InstantOf(all[i].createdAt) = InstantOf(commentsCall.since))
            => \A k \in DOMAIN newComments : newComments[k].id # all[i].id

\* A call was answered with a footer comment created at the instant of
\* since, written with another offset, and an inline comment created later:
\* the inline comment alone was returned.
C31_Witness ==
  /\ commentsCall.pc = "resolved"
  /\ commentsCall.since # NotADate
  /\ Len(commentsCall.footer) = 1
  /\ Len(commentsCall.inline) = 1
  /\ commentsCall.footer[1].createdAt # NotADate
  /\ commentsCall.inline[1].createdAt # NotADate
  /\ commentsCall.footer[1].createdAt # commentsCall.since
  /\ InstantOf(commentsCall.footer[1].createdAt) = InstantOf(commentsCall.since)
  /\ InstantOf(commentsCall.inline[1].createdAt) > InstantOf(commentsCall.since)
  /\ Len(newComments) = 1
  /\ newComments[1].id = "i1"

\* C32: in a setContentState call a POST is sent only after a PUT that
\* failed with not-found: after a PUT that succeeded no POST follows, after
\* a PUT answered 404 exactly one POST follows, and after a PUT that failed
\* otherwise no POST follows.
C32_PostOnlyOnNotFound ==
  LET posts == {i \in DOMAIN httpLog : httpLog[i].method = "POST"}
  IN /\ Len(httpLog) >= 1 => httpLog[1].method = "PUT"
     /\ Cardinality(posts) <= 1
     /\ (Len(httpLog) >= 1 /\ httpLog[1].status = 200) => posts = {}
     /\ (Len(httpLog) >= 1 /\ httpLog[1].status = 404)
          => (setPc = "POST" \/ Cardinality(posts) = 1)
     /\ (Len(httpLog) >= 1 /\ httpLog[1].status \notin {200, 404})
          => (setPc # "POST" /\ posts = {})

====
